---- MODULE Spec2Model ----
(***************************************************************************)
(* Fertilizer blend optimizer (optim/solver.py): one scenario run of the   *)
(* script, from the loaded tables to the exported dose table and cost      *)
(* summary.  The cells of the tables and the solved doses are exact        *)
(* rationals <<n, d>> in lowest terms with d > 0.  The feasibility         *)
(* precheck is computed on the doubles themselves, bit by bit and in the   *)
(* order of the script's expressions.  The rounding of a written dose and  *)
(* of the cost summary is decided on the exact value where the error of    *)
(* the double cannot change the outcome, and on the double where it can.   *)
(***************************************************************************)
EXTENDS Integers, Sequences, FiniteSets, TLC

(***************************************************************************)
(* Exact rational arithmetic.                                              *)
(***************************************************************************)
Abs(a) == IF a < 0 THEN -a ELSE a

RECURSIVE GCD(_, _)
GCD(a, b) == IF b = 0 THEN a ELSE GCD(b, a % b)

\* n/d in lowest terms, g the greatest common divisor of |n| and |d|
Reduce(n, d, g) == IF d < 0 THEN <<(-n) \div g, (-d) \div g>> ELSE <<n \div g, d \div g>>
Q(n, d) == Reduce(n, d, GCD(Abs(n), Abs(d)))

QInt(k) == <<k, 1>>
QZero == <<0, 1>>

AddWith(a, b, g) == Q(a[1] * (b[2] \div g) + b[1] * (a[2] \div g), (a[2] \div g) * b[2])
QAdd(a, b) == AddWith(a, b, GCD(a[2], b[2]))
QSub(a, b) == QAdd(a, <<-b[1], b[2]>>)

\* cross-cancelled product; g1 = gcd(|a.n|, b.d), g2 = gcd(|b.n|, a.d), d > 0
MulWith(a, b, g1, g2) ==
    <<(a[1] \div g1) * (b[1] \div g2), (a[2] \div g2) * (b[2] \div g1)>>
QMul(a, b) ==
    IF a[1] = 0 \/ b[1] = 0 THEN QZero
    ELSE MulWith(a, b, GCD(Abs(a[1]), b[2]), GCD(Abs(b[1]), a[2]))

QDiv(a, b) == QMul(a, IF b[1] < 0 THEN <<-b[2], -b[1]>> ELSE <<b[2], b[1]>>)

QSign(a) == IF a[1] > 0 THEN 1 ELSE IF a[1] < 0 THEN -1 ELSE 0
LeWith(a, b, g) == a[1] * (b[2] \div g) <= b[1] * (a[2] \div g)
QLe(a, b) == LeWith(a, b, GCD(a[2], b[2]))
QLt(a, b) == ~QLe(b, a)
QMin(a, b) == IF QLe(a, b) THEN a ELSE b
QMax(a, b) == IF QLe(a, b) THEN b ELSE a

RECURSIVE QSum(_)
QSum(s) == IF s = <<>> THEN QZero ELSE QAdd(Head(s), QSum(Tail(s)))

(***************************************************************************)
(* The script's floats.  A binary64 value is [s, m, e] = s * m * 2^e with  *)
(* s the sign, m a natural of at most 53 bits and e an integer (zero is    *)
(* m = 0; infinities, NaN and subnormals do not occur in the amounts of    *)
(* the script).  m is a sequence of digits in base 2^15, least significant *)
(* first, without leading zeros.  Every operation is the exact result      *)
(* rounded to the nearest value of 53 bits, ties to even.                  *)
(***************************************************************************)
Base == 32768
FMin2(a, b) == IF a < b THEN a ELSE b

\* 2^k for 0 <= k <= 15
Pow2(k) ==
    <<1, 2, 4, 8, 16, 32, 64, 128, 256, 512, 1024, 2048, 4096, 8192, 16384, 32768>>[k + 1]

RECURSIVE BNorm(_)
BNorm(a) ==
    IF a # <<>> /\ a[Len(a)] = 0 THEN BNorm(SubSeq(a, 1, Len(a) - 1)) ELSE a

RECURSIVE BOf(_)
BOf(n) == IF n = 0 THEN <<>> ELSE <<n % Base>> \o BOf(n \div Base)

RECURSIVE BToInt(_)
BToInt(a) == IF a = <<>> THEN 0 ELSE a[1] + Base * BToInt(Tail(a))

RECURSIVE BCmpFrom(_, _, _)
BCmpFrom(a, b, i) ==
    IF i = 0 THEN 0
    ELSE IF a[i] # b[i] THEN (IF a[i] < b[i] THEN -1 ELSE 1)
    ELSE BCmpFrom(a, b, i - 1)

\* -1, 0 or 1 as a < b, a = b or a > b
BCmp(a, b) ==
    IF Len(a) # Len(b) THEN (IF Len(a) < Len(b) THEN -1 ELSE 1)
    ELSE BCmpFrom(a, b, Len(a))

RECURSIVE BAddC(_, _, _)
BAddC(a, b, c) ==
    IF a = <<>> /\ b = <<>> THEN (IF c = 0 THEN <<>> ELSE <<c>>)
    ELSE LET s == (IF a = <<>> THEN 0 ELSE a[1]) + (IF b = <<>> THEN 0 ELSE b[1]) + c
         IN  <<s % Base>> \o BAddC(IF a = <<>> THEN a ELSE Tail(a),
                                   IF b = <<>> THEN b ELSE Tail(b), s \div Base)
BAdd(a, b) == BAddC(a, b, 0)

\* a - b - c for a >= b + c
RECURSIVE BSubC(_, _, _)
BSubC(a, b, c) ==
    IF a = <<>> THEN <<>>
    ELSE LET s == a[1] - (IF b = <<>> THEN 0 ELSE b[1]) - c
         IN  <<(s + Base) % Base>> \o BSubC(Tail(a), IF b = <<>> THEN b ELSE Tail(b),
                                           IF s < 0 THEN 1 ELSE 0)
BSub(a, b) == BNorm(BSubC(a, b, 0))

\* a * k + c for 0 <= k < Base
RECURSIVE BMulSmallC(_, _, _)
BMulSmallC(a, k, c) ==
    IF a = <<>> THEN (IF c = 0 THEN <<>> ELSE <<c>>)
    ELSE <<(a[1] * k + c) % Base>> \o BMulSmallC(Tail(a), k, (a[1] * k + c) \div Base)
BMulSmall(a, k) == BNorm(BMulSmallC(a, k, 0))

RECURSIVE BMul(_, _)
BMul(a, b) ==
    IF a = <<>> \/ b = <<>> THEN <<>>
    ELSE BAdd(BMulSmall(a, b[1]), BNorm(<<0>> \o BMul(a, Tail(b))))

\* <<quotient, remainder>> of the digits a[1..i] by k, 0 < k < Base, the
\* digits above i having left the remainder r
RECURSIVE BDivSmallFrom(_, _, _, _)
BDivSmallFrom(a, k, i, r) ==
    IF i = 0 THEN <<<<>>, r>>
    ELSE LET t == r * Base + a[i]
             resto == BDivSmallFrom(a, k, i - 1, t % k)
         IN  <<resto[1] \o <<t \div k>>, resto[2]>>
BDivSmall(a, k) ==
    LET qr == BDivSmallFrom(a, k, Len(a), 0) IN <<BNorm(qr[1]), qr[2]>>

\* a * 2^n
BShl(a, n) ==
    IF a = <<>> THEN a
    ELSE [i \in 1..(n \div 15) |-> 0] \o BMulSmall(a, Pow2(n % 15))

\* floor(a / 2^n)
BShr(a, n) ==
    IF Len(a) <= n \div 15 THEN <<>>
    ELSE BDivSmall(SubSeq(a, (n \div 15) + 1, Len(a)), Pow2(n % 15))[1]

RECURSIVE BitsOf(_)
BitsOf(n) == IF n = 0 THEN 0 ELSE 1 + BitsOf(n \div 2)

\* the number of bits of a
BBits(a) == IF a = <<>> THEN 0 ELSE 15 * (Len(a) - 1) + BitsOf(a[Len(a)])

\* bit n of a, the bits counted from 0
BBit(a, n) ==
    IF Len(a) <= n \div 15 THEN 0 ELSE (a[(n \div 15) + 1] \div Pow2(n % 15)) % 2

\* some bit of a below bit n is set
BResto(a, n) ==
    \/ \E i \in 1..FMin2(Len(a), n \div 15) : a[i] # 0
    \/ Len(a) > n \div 15 /\ a[(n \div 15) + 1] % Pow2(n % 15) # 0

\* floor(a / 2^n) rounded to the nearest, ties to even; masDe is TRUE when
\* the value rounded is a little more than a
BRound(a, n, masDe) ==
    IF n = 0 THEN a
    ELSE LET q == BShr(a, n)
             impar == q # <<>> /\ q[1] % 2 = 1
         IN  IF BBit(a, n - 1) = 1 /\ (BResto(a, n - 1) \/ masDe \/ impar)
             THEN BAdd(q, <<1>>) ELSE q

Flotante(s, m, e) == [s |-> s, m |-> m, e |-> e]
FZero == Flotante(1, <<>>, 0)

\* s * m * 2^e (a little more when masDe) rounded to 53 bits
FRound(s, m, e, masDe) ==
    LET sobran == BBits(m) - 53
    IN  IF sobran <= 0 THEN Flotante(s, m, e)
        ELSE Flotante(s, BRound(m, sobran, masDe), e + sobran)

\* the bits of r / d taken in one step without leaving 31 bits: up to 15
PasoDe(d) == IF BitsOf(d) >= 31 THEN 0 ELSE FMin2(15, 31 - BitsOf(d))

\* the next 15 bits of r / d, r < d: <<digit, remainder>> after i more
\* bits, taken paso at a time, or one by one by subtraction when paso = 0;
\* after a remainder of 0 every bit is 0
RECURSIVE DigitoDe(_, _, _, _, _)
DigitoDe(r, d, i, acc, paso) ==
    IF i = 0 THEN <<acc, r>>
    ELSE IF r = 0 THEN <<acc * Pow2(i), 0>>
    ELSE IF paso = 0
    THEN IF r >= d - r THEN DigitoDe(r - (d - r), d, i - 1, 2 * acc + 1, paso)
         ELSE DigitoDe(r + r, d, i - 1, 2 * acc, paso)
    ELSE LET b == FMin2(i, paso)
             t == r * Pow2(b)
         IN  DigitoDe(t % d, d, i - b, acc * Pow2(b) + t \div d, paso)

\* the first 15 * k bits of r / d, most significant digit last in the
\* sequence, and the remainder left
RECURSIVE FraccionCon(_, _, _, _)
FraccionCon(r, d, k, paso) ==
    IF k = 0 THEN <<<<>>, r>>
    ELSE LET dg == DigitoDe(r, d, 15, 0, paso)
             resto == FraccionCon(dg[2], d, k - 1, paso)
         IN  <<resto[1] \o <<dg[1]>>, resto[2]>>
FraccionDe(r, d, k) == FraccionCon(r, d, k, PasoDe(d))

\* the number of leading digits of n / d, base 2^15, that are zero
RECURSIVE CerosDe(_, _)
CerosDe(n, d) == IF n >= d \div Base THEN 0 ELSE 1 + CerosDe(n, d \div Base)

\* float("n/d"): the double nearest to the rational q
FOfQ(q) ==
    IF q[1] = 0 THEN FZero
    ELSE IF q[2] = 1 THEN Flotante(IF q[1] < 0 THEN -1 ELSE 1,
                                   BOf(IF q[1] < 0 THEN -q[1] ELSE q[1]), 0)
    ELSE LET n == IF q[1] < 0 THEN -q[1] ELSE q[1]
             k == 5 + CerosDe(n, q[2])
             fr == FraccionDe(n % q[2], q[2], k)
         IN  FRound(IF q[1] < 0 THEN -1 ELSE 1,
                    BNorm(fr[1] \o BOf(n \div q[2])), -15 * k, fr[2] # 0)

FNeg(x) == Flotante(-x.s, x.m, x.e)

\* the sign of x - y
FCmp(x, y) ==
    LET e == FMin2(x.e, y.e)
        a == BShl(x.m, x.e - e)
        b == BShl(y.m, y.e - e)
    IN  IF a = <<>> /\ b = <<>> THEN 0
        ELSE IF a = <<>> THEN -y.s
        ELSE IF b = <<>> THEN x.s
        ELSE IF x.s # y.s THEN x.s
        ELSE x.s * BCmp(a, b)

FAdd(x, y) ==
    LET e == FMin2(x.e, y.e)
        a == BShl(x.m, x.e - e)
        b == BShl(y.m, y.e - e)
        c == BCmp(a, b)
    IN  IF x.s # y.s /\ c = 0 THEN FZero
        ELSE FRound(IF x.s = y.s \/ c > 0 THEN x.s ELSE y.s,
                    IF x.s = y.s THEN BAdd(a, b)
                    ELSE IF c > 0 THEN BSub(a, b) ELSE BSub(b, a),
                    e, FALSE)

FSub(x, y) == FAdd(x, FNeg(y))

FMul(x, y) ==
    IF x.m = <<>> \/ y.m = <<>> THEN FZero
    ELSE FRound(x.s * y.s, BMul(x.m, y.m), x.e + y.e, FALSE)

\* x / k for an integer 0 < k < 2^15
FDivInt(x, k) ==
    IF x.m = <<>> THEN FZero
    ELSE LET qr == BDivSmall(BShl(x.m, 75), k)
         IN  FRound(x.s, qr[1], x.e - 75, qr[2] # 0)

FGt(x, y) == FCmp(x, y) > 0
FMinF(x, y) == IF FCmp(x, y) <= 0 THEN x ELSE y
FMaxF(x, y) == IF FCmp(x, y) >= 0 THEN x ELSE y

\* round(x * k) for an integer 0 < k < 2^15, as a signed integer: the
\* nearest integer to the exact value of the double, ties to even
FRoundTimes(x, k) ==
    LET m == BMulSmall(x.m, k)
    IN  x.s * BToInt(IF x.e >= 0 THEN BShl(m, x.e) ELSE BRound(m, -x.e, FALSE))

RECURSIVE FSumDesde(_, _, _)
FSumDesde(s, i, acc) ==
    IF i > Len(s) THEN acc ELSE FSumDesde(s, i + 1, FAdd(acc, s[i]))

\* the eight running sums of numpy's pairwise sum: the blocks of eight of s
\* from position i up to position hasta added to r
RECURSIVE Bloques(_, _, _, _)
Bloques(s, i, hasta, r) ==
    IF i + 7 > hasta THEN r
    ELSE Bloques(s, i + 8, hasta, [j \in 1..8 |-> FAdd(r[j], s[i + j - 1])])

\* the running sums r added two by two, and so on down to one
Pares(r) == [j \in 1..(Len(r) \div 2) |-> FAdd(r[2 * j - 1], r[2 * j])]
RECURSIVE Arbol(_)
Arbol(r) == IF Len(r) = 1 THEN r[1] ELSE Arbol(Pares(r))

\* numpy's pairwise sum of the doubles of s: fewer than 8 are added one by
\* one from 0.0; up to 128 go to eight running sums, combined as a tree,
\* and the rest is added one by one; more are split in two halves
RECURSIVE pairwise_sum(_)
pairwise_sum(s) ==
    LET n == Len(s)
    IN  IF n <= 128
        THEN LET hasta == IF n < 8 THEN 0 ELSE n - (n % 8)
                 res == IF n < 8 THEN FZero
                        ELSE Arbol(Bloques(s, 9, hasta, SubSeq(s, 1, 8)))
             IN  FSumDesde(s, hasta + 1, res)
        ELSE LET n2 == (n \div 2) - ((n \div 2) % 8)
             IN  FAdd(pairwise_sum(SubSeq(s, 1, n2)),
                      pairwise_sum(SubSeq(s, n2 + 1, n)))

\* Series.sum() of doubles: 0.0 plus their pairwise sum
FSum(s) == FAdd(FZero, pairwise_sum(s))

\* Python's round(): to the nearest integer, an exact half to the even one.
\* f is the floor of a = n/d and r = n - f*d its remainder.
RoundWith(f, r, d) ==
    IF 2 * r < d THEN f
    ELSE IF 2 * r > d THEN f + 1
    ELSE IF f % 2 = 0 THEN f ELSE f + 1
RoundHalfEven(a) == RoundWith(a[1] \div a[2], a[1] % a[2], a[2])

\* round(val, 2) of the double val nearest to a: the multiple of 1/100
\* nearest to the exact value of the double, ties to even.  Numerators being
\* below 2^31, the double is on the same side of every odd multiple of 1/200
\* as a, unless a is that multiple (in lowest terms its denominator is 8,
\* 40 or 200): then the double's own error decides.
Round2(a) ==
    IF a[2] \in {8, 40, 200}
    THEN Q(FRoundTimes(FOfQ(a), 100), 100)
    ELSE Q(RoundHalfEven(QMul(a, QInt(100))), 100)

(***************************************************************************)
(* Amounts of money are mixed numbers <<w, n, d>> = w + n/d, 0 <= n < d,   *)
(* n/d in lowest terms: a cost of millions with a dose's denominator does  *)
(* not fit one numerator.                                                  *)
(***************************************************************************)
MZero == <<0, 0, 1>>
MOfQ(a) == <<a[1] \div a[2], a[1] % a[2], a[2]>>

\* w plus the (improper) fraction f
MCarry(w, f) == <<w + (f[1] \div f[2]), f[1] % f[2], f[2]>>
MAdd(m1, m2) == MCarry(m1[1] + m2[1], QAdd(<<m1[2], m1[3]>>, <<m2[2], m2[3]>>))

\* (n/d) * u for an integer u coprime to d, n split as q*d + r
MTimes(q, r, d, u) == <<q * u + ((r * u) \div d), (r * u) % d, d>>
MMulWith(a, b, g1, g2) ==
    MTimes((a[1] \div g1) \div ((a[2] \div g2) * (b[2] \div g1)),
           (a[1] \div g1) % ((a[2] \div g2) * (b[2] \div g1)),
           (a[2] \div g2) * (b[2] \div g1),
           b[1] \div g2)
\* the product of the rationals a and b
MMul(a, b) ==
    IF a[1] = 0 \/ b[1] = 0 THEN MZero
    ELSE MMulWith(a, b, GCD(Abs(a[1]), b[2]), GCD(Abs(b[1]), a[2]))

RECURSIVE MSum(_)
MSum(s) == IF s = <<>> THEN MZero ELSE MAdd(Head(s), MSum(Tail(s)))

\* n1/d1 <= n2/d2 for non-negative fractions, by continued fractions
RECURSIVE FracLe(_, _, _, _)
FracLe(n1, d1, n2, d2) ==
    IF n1 \div d1 # n2 \div d2 THEN n1 \div d1 < n2 \div d2
    ELSE IF n1 % d1 = 0 THEN TRUE
    ELSE IF n2 % d2 = 0 THEN FALSE
    ELSE FracLe(d2, n2 % d2, d1, n1 % d1)

MLe(m1, m2) ==
    IF m1[1] # m2[1] THEN m1[1] < m2[1] ELSE FracLe(m1[2], m1[3], m2[2], m2[3])

\* int(round(m, 0))
MRound(m) == RoundWith(m[1], m[2], m[3])

\* a - 1/e > b for a positive integer e: with a - b = n/d, n > d/e, and for
\* an integer n that is n > floor(d/e).
GtEpsOf(c, e) == c[1] > c[2] \div e

\* the exact amount a exceeds the exact amount b by more than 1/e
ExcedePor(a, b, e) == GtEpsOf(QSub(a, b), e)

\* x - eps > y in doubles
FGtEps(x, y, eps) == FGt(FSub(x, eps), y)

(***************************************************************************)
(* Input tables.  A cell of the product table is a rational, or NaN for a  *)
(* cell that pd.to_numeric cannot parse.                                   *)
(***************************************************************************)
NaN == <<0, 0>>
IsNaN(c) == c[2] = 0

Producto(nombre, n, p, k, precio, dmin, dmax) ==
    [producto |-> nombre, N_pct |-> n, P2O5_pct |-> p, K2O_pct |-> k,
     precio_CLP_ton |-> precio, dosis_min_kg_ha |-> dmin,
     dosis_max_kg_ha |-> dmax]

\* every unparseable cell filled with 0
FillNa_Cero(c, default) == IF IsNaN(c) THEN QZero ELSE c

\* fillna(default) after to_numeric(errors="coerce")
FillNa(c, default) == IF IsNaN(c) THEN default ELSE c

DosisMaxDefault == 1000000

Sanitizar(tabla) ==
    [j \in 1..Len(tabla) |->
        [producto |-> tabla[j].producto,
         N_pct |-> FillNa(tabla[j].N_pct, QZero),
         P2O5_pct |-> FillNa(tabla[j].P2O5_pct, QZero),
         K2O_pct |-> FillNa(tabla[j].K2O_pct, QZero),
         precio_CLP_ton |-> FillNa(tabla[j].precio_CLP_ton, QZero),
         dosis_min_kg_ha |-> FillNa(tabla[j].dosis_min_kg_ha, QZero),
         dosis_max_kg_ha |-> FillNa(tabla[j].dosis_max_kg_ha, QInt(DosisMaxDefault))]]

\* the percentage of nutrient nut in product j
Pct(tabla, j, nut) ==
    CASE nut = "N" -> tabla[j].N_pct
      [] nut = "P2O5" -> tabla[j].P2O5_pct
      [] nut = "K2O" -> tabla[j].K2O_pct

\* N, P, K: nutrient fractions pct / 100.0 of product j
Frac(tabla, j, nut) == QDiv(Pct(tabla, j, nut), QInt(100))

\* the same as the double the script holds
FracF(tabla, j, nut) == FDivInt(FOfQ(Pct(tabla, j, nut)), 100)

Nutrientes == <<"N", "P2O5", "K2O">>

\* float(reqs.loc[cult, "<nut>_req_kg_ha"])
Req(rq, cult, nut) ==
    CASE nut = "N" -> rq[cult].N_req_kg_ha
      [] nut = "P2O5" -> rq[cult].P2O5_req_kg_ha
      [] nut = "K2O" -> rq[cult].K2O_req_kg_ha

\* the tolerance left out
ReqEfectivo_SinTolerancia(rq, a, cult, nut) == Req(rq, cult, nut)

\* the tolerance added to the requirement
ReqEfectivo_MasTolerancia(rq, a, cult, nut) ==
    QMul(QAdd(QInt(1), a.tol), Req(rq, cult, nut))

\* (1.0 - args.tol) * requirement
ReqEfectivo(rq, a, cult, nut) == QMul(QSub(QInt(1), a.tol), Req(rq, cult, nut))

\* the same in doubles
ReqEfectivoF(rq, a, cult, nut) ==
    FMul(FSub(FOfQ(QInt(1)), FOfQ(a.tol)), FOfQ(Req(rq, cult, nut)))

\* the mix ceiling never taken into account
MixActivo_Nunca(a) == FALSE

\* the nitrogen ceiling applied whatever its value
NmaxActivo_Siempre(a) == TRUE

\* args.mixmax and args.mixmax > 0 ; args.nmax and args.nmax > 0
MixActivo(a) == QSign(a.mixmax) > 0
NmaxActivo(a) == QSign(a.nmax) > 0
CostoApActivo(a) == QSign(a.costoap) > 0

(***************************************************************************)
(* precheck_factibilidad                                                   *)
(***************************************************************************)
EpsDiag == 1000000
EpsMix == 1000000000

\* the literals 1e-6 and 1e-9 as doubles
EpsDiagF == FOfQ(<<1, EpsDiag>>)
EpsMixF == FOfQ(<<1, EpsMix>>)

Diag(p, tipo) == [potrero |-> p, tipo |-> tipo]

\* dmin.sum() as the script computes it, in doubles
MinMixTotalF(tabla) == FSum([j \in 1..Len(tabla) |-> FOfQ(tabla[j].dosis_min_kg_ha)])

\* (dmax * Nv).sum() in doubles
MaxPorDmaxF(tabla, nut) ==
    FSum([j \in 1..Len(tabla) |-> FMul(FOfQ(tabla[j].dosis_max_kg_ha), FracF(tabla, j, nut))])

\* the largest of the doubles s[i..j]
RECURSIVE FMaxEntre(_, _, _)
FMaxEntre(s, i, j) ==
    IF i = j THEN s[i]
    ELSE LET m == (i + j) \div 2
         IN  FMaxF(FMaxEntre(s, i, m), FMaxEntre(s, m + 1, j))
FMaxSeq(s) == FMaxEntre(s, 1, Len(s))

\* Nv.max() if len(Nv) else 0.0
FracMaxF(tabla, nut) ==
    IF Len(tabla) = 0 THEN FZero
    ELSE FMaxSeq([j \in 1..Len(tabla) |-> FracF(tabla, j, nut)])

\* the nmax clamp applied to every nutrient
CotaMaxF_TopeEnTodos(tabla, a, nut) ==
    LET porDmax == MaxPorDmaxF(tabla, nut)
        conMix == IF MixActivo(a)
                  THEN FMinF(porDmax, FMul(FOfQ(a.mixmax), FracMaxF(tabla, nut)))
                  ELSE porDmax
    IN  IF NmaxActivo(a) THEN FMinF(conMix, FOfQ(a.nmax)) ELSE conMix

\* maxN / maxP / maxK of one field (the same for every field), in doubles
CotaMaxF(tabla, a, nut) ==
    LET porDmax == MaxPorDmaxF(tabla, nut)
        conMix == IF MixActivo(a)
                  THEN FMinF(porDmax, FMul(FOfQ(a.mixmax), FracMaxF(tabla, nut)))
                  ELSE porDmax
    IN  IF nut = "N" /\ NmaxActivo(a) THEN FMinF(conMix, FOfQ(a.nmax)) ELSE conMix

\* min_mix_total - 1e-9 > args.mixmax
DminSuperaMix(tabla, a) ==
    /\ MixActivo(a)
    /\ FGtEps(MinMixTotalF(tabla), FOfQ(a.mixmax), EpsMixF)

\* Nreq - 1e-6 > maxN, for the requirement of crop cult and the bound
\* cota of nutrient nut
ReqSuperaCota(cota, rq, a, cult, nut) ==
    FGtEps(ReqEfectivoF(rq, a, cult, nut), cota, EpsDiagF)

\* lines 141-146: the messages of the nutrients from the t-th on, in the
\* order N, P2O5, K2O
RECURSIVE MsgsNutrientes(_, _, _, _, _)
MsgsNutrientes(maxs, rq, a, fila, t) ==
    IF t > Len(Nutrientes) THEN <<>>
    ELSE (IF ReqSuperaCota(maxs[t], rq, a, fila.cultivo, Nutrientes[t])
          THEN <<Diag(fila.potrero, Nutrientes[t])>> ELSE <<>>)
            \o MsgsNutrientes(maxs, rq, a, fila, t + 1)

\* the messages appended in one iteration of the loop over the fields.
\* What the script computes anew in every iteration from the product table
\* and the command line alone comes in: supera, which is min_mix_total -
\* 1e-9 > args.mixmax, and maxs, which is <<maxN, maxP, maxK>>
MsgsPotrero(supera, maxs, rq, a, fila) ==
    LET dm == IF supera THEN <<Diag(fila.potrero, "dmin")>> ELSE <<>>
    IN  dm \o MsgsNutrientes(maxs, rq, a, fila, 1)

RECURSIVE PrecheckDesde(_, _, _, _, _, _)
PrecheckDesde(pots, supera, maxs, rq, a, k) ==
    IF k > Len(pots) THEN <<>>
    ELSE MsgsPotrero(supera, maxs, rq, a, pots[k])
            \o PrecheckDesde(pots, supera, maxs, rq, a, k + 1)

\* reqs.loc[cult, ...] raises KeyError for a crop that has no row
CultivoDesconocido(pots, rq) ==
    \E k \in 1..Len(pots) : pots[k].cultivo \notin DOMAIN rq

\* <<maxN, maxP, maxK>> from the t-th on
RECURSIVE CotasDesde(_, _, _)
CotasDesde(tabla, a, t) ==
    IF t > Len(Nutrientes) THEN <<>>
    ELSE <<CotaMaxF(tabla, a, Nutrientes[t])>> \o CotasDesde(tabla, a, t + 1)

precheck_factibilidad(pots, tabla, rq, a) ==
    LET supera == DminSuperaMix(tabla, a)
        maxs == CotasDesde(tabla, a, 1)
    IN  PrecheckDesde(pots, supera, maxs, rq, a, 1)

(***************************************************************************)
(* The linear program.  Constraints and objective are per field, so the    *)
(* program is solved field by field.  The feasible region of a field is a  *)
(* bounded polytope (every dose lies in [max(0, dmin), dmax]); a simplex   *)
(* solver returns one of its vertices of least cost.  A vertex fixes some  *)
(* doses at a bound and determines the others by as many tight general     *)
(* constraints.                                                            *)
(***************************************************************************)
Dot(u, v) == QSum([j \in 1..Len(u) |-> QMul(u[j], v[j])])

\* superficie[p] * (precio_ton[i] / 1000.0), plus
\* superficie[p] * (args.costoap / 1000.0) when costoap > 0
CostoUnitario(tabla, a, sup, j) ==
    QMul(sup, QDiv(IF CostoApActivo(a)
                   THEN QAdd(tabla[j].precio_CLP_ton, a.costoap)
                   ELSE tabla[j].precio_CLP_ton, QInt(1000)))

\* objective terms of one field
CostoPotrero(tabla, a, sup, dosis) ==
    MSum([j \in 1..Len(tabla) |-> MMul(dosis[j], CostoUnitario(tabla, a, sup, j))])

Restr(coef, sentido, rhs) == [coef |-> coef, sentido |-> sentido, rhs |-> rhs]

\* a copy-paste slip: the nitrogen fractions in every nutrient constraint
RestrNutriente_CopiaN(tabla, rq, a, cult, nut) ==
    Restr([j \in 1..Len(tabla) |-> Frac(tabla, j, "N")], "ge", ReqEfectivo(rq, a, cult, nut))

\* >= requirement with tolerance, for one nutrient
RestrNutriente(tabla, rq, a, cult, nut) ==
    Restr([j \in 1..Len(tabla) |-> Frac(tabla, j, nut)], "ge", ReqEfectivo(rq, a, cult, nut))

\* the mix constraint left out
RestrMix_Omitida(tabla, a) == <<>>

\* sum of doses <= mixmax, when mixmax > 0
RestrMix(tabla, a) ==
    IF MixActivo(a)
    THEN <<Restr([j \in 1..Len(tabla) |-> QInt(1)], "le", a.mixmax)>> ELSE <<>>

\* the nitrogen constraint bounded by args.mixmax instead of args.nmax
RestrNmax_TopeMezcla(tabla, a) ==
    IF NmaxActivo(a)
    THEN <<Restr([j \in 1..Len(tabla) |-> Frac(tabla, j, "N")], "le", a.mixmax)>> ELSE <<>>

\* nitrogen supplied <= nmax, when nmax > 0
RestrNmax(tabla, a) ==
    IF NmaxActivo(a)
    THEN <<Restr([j \in 1..Len(tabla) |-> Frac(tabla, j, "N")], "le", a.nmax)>> ELSE <<>>

\* the general constraints of the field with crop cult, in the order added
Restricciones(tabla, rq, a, cult) ==
    [t \in 1..3 |-> RestrNutriente(tabla, rq, a, cult, Nutrientes[t])]
        \o RestrMix(tabla, a) \o RestrNmax(tabla, a)

\* the constraint x >= dmin left out: only lowBound=0 remains
CotaInf_SoloCero(tabla, j) == QZero

\* lowBound=0 of the variable and x >= dmin
CotaInf(tabla, j) == QMax(QZero, tabla[j].dosis_min_kg_ha)
\* x <= dmax
CotaSup(tabla, j) == tabla[j].dosis_max_kg_ha

CumpleValor(r, val) == IF r.sentido = "ge" THEN QLe(r.rhs, val) ELSE QLe(val, r.rhs)
Cumple(r, dosis) == CumpleValor(r, Dot(r.coef, dosis))

EnCotas(lo, val, hi) == QLe(lo, val) /\ QLe(val, hi)

\* dosis satisfies the bounds of the products and the constraints rs
FactibleCon(rs, tabla, dosis) ==
    /\ \A j \in 1..Len(tabla) : EnCotas(CotaInf(tabla, j), dosis[j], CotaSup(tabla, j))
    /\ \A t \in 1..Len(rs) : Cumple(rs[t], dosis)

\* dosis satisfies every constraint of the field with crop cult
Factible(tabla, rq, a, cult, dosis) ==
    FactibleCon(Restricciones(tabla, rq, a, cult), tabla, dosis)

\* Gaussian elimination: rows of k coefficients and a right-hand side
SinSolucion == [ok |-> FALSE, x |-> <<>>]

Pivotes(rows) == {r \in 1..Len(rows) : rows[r][1][1] # 0}
Minimo(S) == CHOOSE e \in S : \A o \in S : e <= o

EliminarCon(row, prow, f) ==
    [c \in 1..(Len(row) - 1) |-> QSub(row[c + 1], QMul(f, prow[c + 1]))]
Eliminar(row, prow) == EliminarCon(row, prow, QDiv(row[1], prow[1]))
Reducir(rows, r0) ==
    [j \in 1..(Len(rows) - 1) |-> Eliminar(rows[IF j < r0 THEN j ELSE j + 1], rows[r0])]

Sustituir(prow, k, subx) ==
    <<QDiv(QSub(prow[k + 1], QSum([c \in 1..(k - 1) |-> QMul(prow[c + 1], subx[c])])),
           prow[1])>> \o subx
Completar(prow, sub) ==
    IF sub.ok THEN [ok |-> TRUE, x |-> Sustituir(prow, Len(prow) - 1, sub.x)]
    ELSE SinSolucion

RECURSIVE SolveLin(_)
SolveCon(rows, r0) == Completar(rows[r0], SolveLin(Reducir(rows, r0)))
SolveLin(rows) ==
    IF Len(rows) = 0 THEN [ok |-> TRUE, x |-> <<>>]
    ELSE IF Pivotes(rows) = {} THEN SinSolucion
    ELSE SolveCon(rows, Minimo(Pivotes(rows)))

\* the j-th smallest element of a set of naturals
RECURSIVE Nth(_, _)
Nth(S, j) == IF j = 1 THEN Minimo(S) ELSE Nth(S \ {Minimo(S)}, j - 1)

Pos(S, e) == Cardinality({o \in S : o <= e})

\* A basic solution: est fixes each dose at its lower bound ("lo"), at its
\* upper bound ("hi") or leaves it "free"; the free doses F are determined
\* by the tight general constraints T.
Fijo(tabla, est, j) == IF est[j] = "lo" THEN CotaInf(tabla, j) ELSE CotaSup(tabla, j)
Libres(est) == {j \in DOMAIN est : est[j] = "free"}

FilaSistema(r, tabla, est, F) ==
    [c \in 1..(Cardinality(F) + 1) |->
        IF c <= Cardinality(F) THEN r.coef[Nth(F, c)]
        ELSE QSub(r.rhs, QSum([j \in 1..Len(tabla) |->
                                 IF j \in F THEN QZero
                                 ELSE QMul(r.coef[j], Fijo(tabla, est, j))]))]

Sistema(rs, tabla, est, F, T) ==
    [t \in 1..Cardinality(F) |-> FilaSistema(rs[Nth(T, t)], tabla, est, F)]

Armar(tabla, est, F, s) ==
    IF s.ok
    THEN [ok |-> TRUE,
          x |-> [j \in 1..Len(tabla) |->
                    IF j \in F THEN s.x[Pos(F, j)] ELSE Fijo(tabla, est, j)]]
    ELSE SinSolucion

Basica(rs, tabla, est, F, T) == Armar(tabla, est, F, SolveLin(Sistema(rs, tabla, est, F, T)))

Bases(n, m) ==
    {b \in [1..n -> {"lo", "hi", "free"}] \X (SUBSET (1..m)) :
        Cardinality(b[2]) = Cardinality(Libres(b[1]))}

BasicasCon(rs, tabla) ==
    {s.x : s \in {c \in {Basica(rs, tabla, b[1], Libres(b[1]), b[2]) :
                            b \in Bases(Len(tabla), Len(rs))} : c.ok}}

\* the vertices of the region that the constraints rs and the bounds of the
\* products of tabla leave
VerticesCon(rs, tabla) == {v \in BasicasCon(rs, tabla) : FactibleCon(rs, tabla, v)}

\* the dictionaries keeping the first row of a name
Ultima_Primera(tabla, j) ==
    Minimo({k \in 1..Len(tabla) : tabla[k].producto = tabla[j].producto})

\* lines 87-93: N, P, K, precio_ton, dmin and dmax are Series.to_dict() of
\* columns indexed by producto, and a dictionary keeps one value per name:
\* that of the last row that carries it
Ultima(tabla, j) ==
    CHOOSE k \in 1..Len(tabla) :
        /\ tabla[k].producto = tabla[j].producto
        /\ \A m \in (k + 1)..Len(tabla) : tabla[m].producto # tabla[j].producto

\* the product table as the dictionaries give it: every row with the values
\* of its name
to_dict(tabla) == [j \in 1..Len(tabla) |-> tabla[Ultima(tabla, j)]]

\* line 161: LpVariable.dicts keeps one variable per key (i, p), so the
\* rows of one name share the variable of a field; the rows that stand for
\* the variables
Claves(tabla) == {j \in 1..Len(tabla) : Ultima(tabla, j) = j}

\* the products of the variables of a field, with the values of the
\* dictionaries
Variables(tabla) ==
    [t \in 1..Cardinality(Claves(tabla)) |-> tabla[Nth(Claves(tabla), t)]]

\* the number of rows that carry the name of row j
Veces(tabla, j) ==
    Cardinality({k \in 1..Len(tabla) : tabla[k].producto = tabla[j].producto})

\* lines 189-197: every lpSum runs over productos, the names of all rows,
\* and so adds the term of a name once for every row that carries it
PorVariable(r, tabla) ==
    Restr([t \in 1..Cardinality(Claves(tabla)) |->
              QMul(QInt(Veces(tabla, Nth(Claves(tabla), t))),
                   r.coef[Nth(Claves(tabla), t)])],
          r.sentido, r.rhs)

\* the dose of every row: the value of the variable of its name
PorFila(v, tabla) == [j \in 1..Len(tabla) |-> v[Pos(Claves(tabla), Ultima(tabla, j))]]

\* the vertices of the feasible region of a field, as doses of the rows
VerticesDe(rs, tabla) ==
    {PorFila(v, tabla) :
        v \in VerticesCon([t \in 1..Len(rs) |-> PorVariable(rs[t], tabla)],
                          Variables(tabla))}
Vertices(tabla, rq, a, cult) ==
    VerticesDe(Restricciones(to_dict(tabla), rq, a, cult), tabla)

\* LpMaximize in place of LpMinimize
MinCosto_Maximiza(V, costo) == {v \in V : \A w \in V : MLe(costo[w], costo[v])}

\* the vertices of least cost: what the solver may return for the field
MinCosto(V, costo) == {v \in V : \A w \in V : MLe(costo[v], costo[w])}
\* any feasible vertex taken for an optimal one
OptimosDe_Factibles(V, tabla, a, sup) == V

OptimosDe(V, tabla, a, sup) == MinCosto(V, [v \in V |-> CostoPotrero(tabla, a, sup, v)])
\* lines 165-175: the objective runs over productos as well, with the
\* prices of the dictionary
Optimos(tabla, rq, a, cult, sup) ==
    OptimosDe(Vertices(tabla, rq, a, cult), to_dict(tabla), a, sup)

(***************************************************************************)
(* Export: the dose table and the cost summary.                            *)
(***************************************************************************)
EpsDosis == 1000000

\* every dose written, the zero ones too
SeEscribe_Todas(val) == TRUE

\* val and val > 1e-6
SeEscribe(val) == val[1] # 0 /\ val[1] > val[2] \div EpsDosis

\* lexicographic order of the names that occur in the tables
RangoNombre ==
    [nm \in {"KCl", "MAP", "Mezcla", "Urea", "P1", "P2", "P3", "P4"} |->
        CASE nm = "KCl" -> 2 [] nm = "MAP" -> 3
          [] nm = "Mezcla" -> 4 [] nm = "P1" -> 5 [] nm = "P2" -> 6
          [] nm = "P3" -> 7 [] nm = "P4" -> 8 [] nm = "Urea" -> 9]

\* rows in the order the loops append them: products outer, fields inner
RECURSIVE FilasDesde(_, _, _, _, _)
FilasDesde(pots, tabla, dosis, j, k) ==
    IF j > Len(tabla) THEN <<>>
    ELSE IF k > Len(pots) THEN FilasDesde(pots, tabla, dosis, j + 1, 1)
    ELSE (IF SeEscribe(dosis[k][j])
          THEN <<[potrero |-> pots[k].potrero, producto |-> tabla[j].producto,
                  kg_ha |-> Round2(dosis[k][j])]>>
          ELSE <<>>)
         \o FilasDesde(pots, tabla, dosis, j, k + 1)

FilaMenor(r, s) ==
    \/ RangoNombre[r.potrero] < RangoNombre[s.potrero]
    \/ /\ r.potrero = s.potrero
       /\ RangoNombre[r.producto] < RangoNombre[s.producto]

\* sort_values(["potrero", "producto"])
RECURSIVE SortValues(_)
SortValues(rows) ==
    IF Len(rows) <= 1 THEN rows
    ELSE LET h == Head(rows)
             t == SortValues(Tail(rows))
             antes == SelectSeq(t, LAMBDA r : FilaMenor(r, h))
             despues == SelectSeq(t, LAMBDA r : ~FilaMenor(r, h))
         IN  antes \o <<h>> \o despues

\* costo_total: every non-zero solved dose, unrounded
RECURSIVE CostoDesde(_, _, _, _, _, _)
CostoDesde(pots, tabla, a, dosis, j, k) ==
    IF j > Len(tabla) THEN MZero
    ELSE IF k > Len(pots) THEN CostoDesde(pots, tabla, a, dosis, j + 1, 1)
    ELSE MAdd(IF dosis[k][j][1] # 0
              THEN MMul(dosis[k][j], CostoUnitario(tabla, a, pots[k].superficie_ha, j))
              ELSE MZero,
              CostoDesde(pots, tabla, a, dosis, j, k + 1))

CostoTotal(pots, tabla, a, dosis) == CostoDesde(pots, tabla, a, dosis, 1, 1)

\* lines 225-232 in doubles: costo_total after the pairs before (j, k)
\* have added up to acc
RECURSIVE CostoFlotanteDesde(_, _, _, _, _, _, _)
CostoFlotanteDesde(pots, tabla, a, dosis, j, k, acc) ==
    IF j > Len(tabla) THEN acc
    ELSE IF k > Len(pots) THEN CostoFlotanteDesde(pots, tabla, a, dosis, j + 1, 1, acc)
    ELSE LET vs == FMul(FOfQ(dosis[k][j]), FOfQ(pots[k].superficie_ha))
             c1 == FAdd(acc, FMul(vs, FDivInt(FOfQ(tabla[j].precio_CLP_ton), 1000)))
             c2 == IF CostoApActivo(a)
                   THEN FAdd(c1, FMul(vs, FDivInt(FOfQ(a.costoap), 1000)))
                   ELSE c1
         IN  CostoFlotanteDesde(pots, tabla, a, dosis, j, k + 1,
                                IF dosis[k][j][1] = 0 THEN acc ELSE c2)

CostoFlotante(pots, tabla, a, dosis) ==
    CostoFlotanteDesde(pots, tabla, a, dosis, 1, 1, FZero)

\* the fraction of the mixed number m is within 1/1024 of one half; the
\* double costo_total of a total below 2^31 is much nearer than that to
\* the exact total
CercaDeMedio(m) == Abs(m[2] - (m[3] - m[2])) <= m[3] \div 512

\* int(round(costo_total, 0))
CostoResumen(pots, tabla, a, dosis) ==
    IF CercaDeMedio(CostoTotal(pots, tabla, a, dosis))
    THEN FRoundTimes(CostoFlotante(pots, tabla, a, dosis), 1)
    ELSE MRound(CostoTotal(pots, tabla, a, dosis))

(***************************************************************************)
(* The text of the cost summary and its reading by the page.               *)
(***************************************************************************)
Cifras == <<"0", "1", "2", "3", "4", "5", "6", "7", "8", "9">>

\* str(n) of an integer: its decimal digits, after a minus sign if negative
RECURSIVE Decimal(_)
Decimal(n) ==
    IF n < 0 THEN <<"-">> \o Decimal(-n)
    ELSE IF n < 10 THEN <<Cifras[n + 1]>>
    ELSE Decimal(n \div 10) \o <<Cifras[(n % 10) + 1]>>

\* the amount written as a float: "1234.0"
TextoResumen_Flotante(costo) ==
    <<"C", "o", "s", "t", "o", " ", "t", "o", "t", "a", "l", " ", "(", "C", "L", "P",
      ")", ":", " ">> \o Decimal(costo) \o <<".", "0", "\n">>

\* line 234: f"Costo total (CLP): {int(round(costo_total, 0))}\n"
TextoResumen(costo) ==
    <<"C", "o", "s", "t", "o", " ", "t", "o", "t", "a", "l", " ", "(", "C", "L", "P",
      ")", ":", " ">> \o Decimal(costo) \o <<"\n">>

\* int(dig) of a sequence of digits, acc the value of those already read
RECURSIVE Entero(_, _)
Entero(dig, acc) ==
    IF dig = <<>> THEN acc
    ELSE Entero(Tail(dig), 10 * acc + (CHOOSE d \in 0..9 : Cifras[d + 1] = Head(dig)))

\* src/app/optimizador.py lines 547-552, on the summary file archivo
costo_total_desde_txt(archivo) ==
    IF ~archivo.existe THEN 0
    ELSE Entero(SelectSeq(TextoResumen(archivo.costo),
                          LAMBDA ch : \E d \in 1..10 : Cifras[d] = ch), 0)

(***************************************************************************)
(* The inputs of a run.  Field names and crop names are unique within      *)
(* their table.  Product names are unique within the tables of             *)
(* TablasProductos; the tables of TablasRepetidas carry a name on more     *)
(* than one row.                                                           *)
(***************************************************************************)
MaxPotreros == 2

\* the products on offer; a product table is a selection of them that
\* leaves at least one out
Catalogo ==
    << Producto("Urea", QInt(46), QInt(0), QInt(0), QInt(450000), QInt(0), QInt(300)),
       Producto("MAP", QInt(11), QInt(52), QInt(0), QInt(620000), QInt(0), QInt(300)),
       Producto("KCl", QInt(0), QInt(0), QInt(60), QInt(500000), Q(50004, 1000), QInt(200)),
       Producto("Mezcla", QInt(10), QInt(10), QInt(10), QInt(100000), QInt(160), QInt(400)) >>

\* the rows of Catalogo with index in S, in the order of the catalogue
RECURSIVE SubTabla(_, _)
SubTabla(S, j) ==
    IF j > Len(Catalogo) THEN <<>>
    ELSE (IF j \in S THEN <<Catalogo[j]>> ELSE <<>>) \o SubTabla(S, j + 1)

TablasProductos == {SubTabla(S, 1) : S \in (SUBSET (1..Len(Catalogo))) \ {1..Len(Catalogo)}}

Requerimiento(n, p, k) ==
    [N_req_kg_ha |-> QInt(n), P2O5_req_kg_ha |-> QInt(p), K2O_req_kg_ha |-> QInt(k)]

Requerimientos ==
    [c \in {"trigo", "alfalfa", "barbecho"} |->
        CASE c = "trigo" -> Requerimiento(160, 70, 0)
          [] c = "alfalfa" -> Requerimiento(0, 70, 60)
          [] c = "barbecho" -> Requerimiento(0, 0, 0)]

\* "avena" has no row in the requirement table
Cultivos == {"trigo", "alfalfa", "barbecho", "avena"}

NombrePotrero == <<"P1", "P2", "P3", "P4">>
SuperficiePotrero == <<QInt(10), Q(5, 2), QInt(7), QInt(1)>>

TablasPotreros ==
    UNION { { [k \in 1..n |-> [potrero |-> NombrePotrero[k], cultivo |-> c[k],
                               superficie_ha |-> SuperficiePotrero[k]]] :
              c \in [1..n -> Cultivos] } : n \in 0..MaxPotreros }

Argumentos ==
    [nmax : {QInt(0), QInt(30), QInt(300)},
     mixmax : {QInt(0), QInt(200), QInt(600)},
     tol : {Q(2, 100)},
     costoap : {QZero, QInt(50000)},
     tag : {"A"}]

\* doses compared with the solved ones: PasosMalla + 1 evenly spaced values
\* of every product's interval
PasosMalla == 3

(***************************************************************************)
(* One run of the script.                                                  *)
(***************************************************************************)
VARIABLES potreros, reqs, prods, columnas, args, reqpath, pc, tabla, msgs,
          status, x, error, archivos, exit_code, otra, session_state, pagina

vars == <<potreros, reqs, prods, columnas, args, reqpath, pc, tabla, msgs,
          status, x, error, archivos, exit_code, otra, session_state, pagina>>

\* what no step of the script itself changes: its inputs, the other run and
\* the page that may have launched it
entradas == <<potreros, reqs, prods, columnas, args, reqpath, otra,
              session_state, pagina>>

\* lines 30-33: the output paths of a tag
Tags == {"", "A", "B"}

\* the tag left out of the file name
CSV_OUT_SinTag(tag) == <<"resultados_dosis", "">>

CSV_OUT(tag) == <<"resultados_dosis", tag>>
TXT_OUT(tag) == <<"_resumen", tag>>
\* the output files the data directory may hold
Rutas == {"resultados_dosis", "_resumen"} \X Tags

SinArchivo == [existe |-> FALSE, filas |-> <<>>, costo |-> 0]
ArchivoCSV(filas) == [existe |-> TRUE, filas |-> filas, costo |-> 0]
\* the summary never created
ArchivoTXT_SinCrear(costo) == SinArchivo

ArchivoTXT(costo) == [existe |-> TRUE, filas |-> <<>>, costo |-> costo]

\* the two output files of the run
csv_out == archivos[CSV_OUT(args.tag)]
txt_out == archivos[TXT_OUT(args.tag)]

\* the data directory without output files
SinSalidas == [r \in Rutas |-> SinArchivo]

\* the headers the three tables need
ColumnasPotreros == <<"potrero", "cultivo", "superficie_ha">>
ColumnasReqs == <<"N_req_kg_ha", "P2O5_req_kg_ha", "K2O_req_kg_ha">>
ColumnasProds == <<"N_pct", "P2O5_pct", "K2O_pct", "precio_CLP_ton",
                   "dosis_min_kg_ha", "dosis_max_kg_ha">>
Rango(s) == {s[k] : k \in DOMAIN s}
Requeridas ==
    [potreros |-> Rango(ColumnasPotreros),
     reqs     |-> Rango(ColumnasReqs) \cup {"cultivo"},
     prods    |-> Rango(ColumnasProds) \cup {"producto"}]

\* a header as it stands in the file once utf-8-sig has decoded it: a run of
\* pieces, each a run of blanks, a byte order mark or other text
Blanco == " "
BOM == "BOM"
Escrito(nombre) == <<nombre>>

\* the files whose headers are the required names and nothing else
Completas == [tb \in DOMAIN Requeridas |-> {Escrito(c) : c \in Requeridas[tb]}]

\* str.strip(): the blanks at both ends go, a byte order mark is no blank
RECURSIVE strip(_)
strip(h) ==
    IF h = <<>> THEN h
    ELSE IF Head(h) = Blanco THEN strip(Tail(h))
    ELSE IF h[Len(h)] = Blanco THEN strip(SubSeq(h, 1, Len(h) - 1))
    ELSE h

\* str.lstrip("\ufeff"): the byte order marks at the left end go
RECURSIVE lstrip(_)
lstrip(h) == IF h # <<>> /\ Head(h) = BOM THEN lstrip(Tail(h)) ELSE h

\* the text of the pieces
RECURSIVE Texto(_)
Texto(h) == IF h = <<>> THEN "" ELSE Head(h) \o Texto(Tail(h))

\* line 41: the label of the column with header h
Etiqueta(h) == Texto(lstrip(strip(h)))

\* the columns of a frame: its labels, each with the number of columns
\* that carry it.  The headers of a file are distinct, their labels after
\* line 41 need not be.
Etiquetas(cols) ==
    [e \in {Etiqueta(h) : h \in cols} |-> Cardinality({h \in cols : Etiqueta(h) = e})]

\* df.rename(columns={de: a}): every column labelled de is labelled a
rename(c, de, a) ==
    IF de \notin DOMAIN c THEN c
    ELSE [e \in (DOMAIN c \ {de}) \cup {a} |->
            (IF e \in DOMAIN c \ {de} THEN c[e] ELSE 0) + (IF e = a THEN c[de] ELSE 0)]

\* lines 38-53: the header corrections of the tolerant reader
read_csv_flexible(cols) ==
    LET c0 == Etiquetas(cols)
        c1 == rename(c0, "P205_req_kg_ha", "P2O5_req_kg_ha")
        c2 == IF "cultivo" \notin DOMAIN c0 THEN rename(c1, "Cultivo", "cultivo") ELSE c1
    IN  IF "producto" \notin DOMAIN c0 THEN rename(c2, "Producto", "producto") ELSE c2

\* the label e is carried by more than one column of the frame c
Repetida(c, e) == e \in DOMAIN c /\ c[e] > 1

\* the command line without --reqpath
SinReqpath == ""

\* no error message printed
SinError == <<>>

\* the private state of a run: its command line and its position
Corrida(a, rp, p, tb, ms, st, sol, err, code) ==
    [args |-> a, reqpath |-> rp, pc |-> p, tabla |-> tb, msgs |-> ms,
     status |-> st, x |-> sol, error |-> err, exit_code |-> code]

\* a second run of the script that has not started, with its command line
Pendiente(a, rp) ==
    Corrida(a, rp, "cargar", <<>>, <<>>, "Not Solved", <<>>, SinError, -1)

\* no second run
SinOtra == [pc |-> "ninguna"]

\* optimizador.py 54-66: the session state of a page just opened; None is
\* <<>> and any other value v is <<v>>
None == <<>>

LastRunInicial ==
    [okA |-> FALSE, okB |-> FALSE, csvA |-> None, csvB |-> None,
     txtA |-> None, txtB |-> None, costoA |-> None, costoB |-> None]

SesionInicial == [last_run |-> LastRunInicial, already_rendered |-> FALSE]

\* what one run of the page script shows
SinRender == [inmediato |-> FALSE, persistente |-> FALSE, exportar |-> "nada"]

\* the script run from a shell: no page
SinPagina == [fase |-> "ninguna"]

SinPanel == session_state = SesionInicial /\ pagina = SinPagina

\* the state of a run that has not started
Arranque ==
    /\ pc = "cargar"
    /\ tabla = <<>>
    /\ msgs = <<>>
    /\ status = "Not Solved"
    /\ x = <<>>
    /\ error = SinError
    /\ exit_code = -1

\* the input tables P and D with all their columns, a command line of A
Entradas(P, D, A) ==
    /\ potreros \in P
    /\ reqs = Requerimientos
    /\ prods \in D
    /\ columnas = Completas
    /\ args \in A
    /\ reqpath = SinReqpath

Init ==
    /\ Entradas(TablasPotreros, TablasProductos, Argumentos)
    /\ archivos = SinSalidas
    /\ otra = SinOtra
    /\ SinPanel
    /\ Arranque

\* sys.exit(code), or an uncaught exception (code 1)
Termina(code) == pc' = "fin" /\ exit_code' = code

\* the first required column that cols lacks, <<>> when none is missing
PrimeraFalta(cols, requeridas) ==
    LET faltan == {k \in DOMAIN requeridas : requeridas[k] \notin cols}
    IN  IF faltan = {} THEN <<>>
        ELSE <<requeridas[CHOOSE k \in faltan : \A j \in faltan : k <= j]>>

\* the first of the columns nombres that the frame c has more than once,
\* <<>> when it has none twice
PrimeraRepetida(c, nombres) ==
    LET dobles == {k \in DOMAIN nombres : Repetida(c, nombres[k])}
    IN  IF dobles = {} THEN <<>>
        ELSE <<nombres[CHOOSE k \in dobles : \A j \in dobles : k <= j]>>

\* lines 79-84: the columns of the product table in the order in which
\* they are made numeric
ColumnasNumericas ==
    <<"dosis_min_kg_ha", "dosis_max_kg_ha", "precio_CLP_ton", "N_pct", "P2O5_pct",
      "K2O_pct">>

\* lines 58-96.  set_index (59, 60) raises KeyError on a table without its
\* key column and ValueError on one that has it twice; then come the three
\* loops of "Validaciones minimas" in their order; to_numeric (80-84)
\* raises TypeError on a column the product table has twice, and set_index
\* (96) ValueError on a field table with two columns potrero
ErrorDeCarga(cols) ==
    LET cp == read_csv_flexible(cols.potreros)
        cr == read_csv_flexible(cols.reqs)
        cd == read_csv_flexible(cols.prods)
    IN  IF "cultivo" \notin DOMAIN cr THEN <<"KeyError", "cultivo">>
        ELSE IF Repetida(cr, "cultivo") THEN <<"ValueError", "cultivo">>
        ELSE IF "producto" \notin DOMAIN cd THEN <<"KeyError", "producto">>
        ELSE IF Repetida(cd, "producto") THEN <<"ValueError", "producto">>
        ELSE IF PrimeraFalta(DOMAIN cp, ColumnasPotreros) # <<>>
        THEN <<"faltan columnas", "potreros.csv">>
                \o PrimeraFalta(DOMAIN cp, ColumnasPotreros)
        ELSE IF PrimeraFalta(DOMAIN cr, ColumnasReqs) # <<>>
        THEN <<"faltan columnas", "requerimientos.csv">>
                \o PrimeraFalta(DOMAIN cr, ColumnasReqs)
        ELSE IF PrimeraFalta(DOMAIN cd, ColumnasProds) # <<>>
        THEN <<"faltan columnas", "productos.csv">>
                \o PrimeraFalta(DOMAIN cd, ColumnasProds)
        ELSE IF PrimeraRepetida(cd, ColumnasNumericas) # <<>>
        THEN <<"TypeError">> \o PrimeraRepetida(cd, ColumnasNumericas)
        ELSE IF Repetida(cp, "potrero") THEN <<"ValueError", "potrero">>
        ELSE SinError

\* sys.exit(2) after a message, an uncaught exception leaves with 1
CodigoDe(err) == IF err[1] \in {"KeyError", "ValueError", "TypeError"} THEN 1 ELSE 2

\* lines 20-28 and 58-98: parse the command line, read the tables, check the
\* columns, sanitize the products
Cargar ==
    /\ pc = "cargar"
    /\ IF reqpath # SinReqpath
       THEN \* parser.parse_args(): error: unrecognized arguments
            /\ error' = <<"unrecognized arguments", "--reqpath">>
            /\ tabla' = tabla
            /\ Termina(2)
       ELSE IF ErrorDeCarga(columnas) # SinError
       THEN /\ error' = ErrorDeCarga(columnas)
            /\ tabla' = tabla
            /\ Termina(CodigoDe(error'))
       ELSE /\ error' = error
            /\ tabla' = Sanitizar(prods)
            /\ pc' = "precheck"
            /\ exit_code' = exit_code
    /\ UNCHANGED <<entradas, msgs, status, x, archivos>>

\* the unknown crop of the first field that has one
PrimerDesconocido(pots, rq) ==
    LET ks == {k \in DOMAIN pots : pots[k].cultivo \notin DOMAIN rq}
    IN  pots[CHOOSE k \in ks : \A j \in ks : k <= j]

\* lines 97 and 113-118 on tables with a column twice, for the first
\* field: two columns cultivo leave cultivo_por_potrero without the field
\* names as keys, and two columns of one requirement make reqs.loc[...] a
\* Series, which float() turns down unless the row is missing
ErrorDeFila(cols, pots, rq) ==
    LET cp == read_csv_flexible(cols.potreros)
        cr == read_csv_flexible(cols.reqs)
    IN  IF pots = <<>> THEN SinError
        ELSE IF Repetida(cp, "cultivo") THEN <<"KeyError", pots[1].potrero>>
        ELSE IF PrimeraRepetida(cr, ColumnasReqs) = <<>> THEN SinError
        ELSE IF pots[1].cultivo \notin DOMAIN rq THEN <<"KeyError", pots[1].cultivo>>
        ELSE <<"TypeError">> \o PrimeraRepetida(cr, ColumnasReqs)

\* lines 150-156
Precheck ==
    /\ pc = "precheck"
    /\ IF ErrorDeFila(columnas, potreros, reqs) # SinError
       THEN /\ msgs' = msgs
            /\ error' = ErrorDeFila(columnas, potreros, reqs)
            /\ Termina(1)
       ELSE IF CultivoDesconocido(potreros, reqs)
       THEN \* reqs.loc[cult, ...] raises KeyError
            /\ msgs' = msgs
            /\ error' = <<"KeyError", PrimerDesconocido(potreros, reqs).cultivo>>
            /\ Termina(1)
       ELSE /\ msgs' = precheck_factibilidad(potreros, tabla, reqs, args)
            /\ IF msgs' # <<>>
               THEN error' = <<"modelo Infeasible por los diagnosticos anteriores">>
                    /\ Termina(2)
               ELSE error' = error /\ pc' = "modelo" /\ exit_code' = exit_code
    /\ UNCHANGED <<entradas, tabla, status, x, archivos>>

\* lines 96 and 167-170: two columns superficie_ha leave superficie without
\* the field names as keys, and the first term of the objective looks the
\* first field up
ErrorDeSuperficie(cols, pots, tb) ==
    IF /\ Repetida(read_csv_flexible(cols.potreros), "superficie_ha")
       /\ pots # <<>> /\ tb # <<>>
    THEN <<"KeyError", pots[1].potrero>>
    ELSE SinError

\* lines 161-201: variables, objective and constraints
Construir ==
    /\ pc = "modelo"
    /\ IF ErrorDeSuperficie(columnas, potreros, tabla) # SinError
       THEN /\ error' = ErrorDeSuperficie(columnas, potreros, tabla)
            /\ Termina(1)
       ELSE IF CultivoDesconocido(potreros, reqs)
       THEN /\ error' = <<"cultivo no esta en requerimientos.csv",
                          PrimerDesconocido(potreros, reqs).cultivo,
                          PrimerDesconocido(potreros, reqs).potrero>>
            /\ Termina(2)
       ELSE error' = error /\ pc' = "resolver" /\ exit_code' = exit_code
    /\ UNCHANGED <<entradas, tabla, msgs, status, x, archivos>>

\* the optimal vertices of every field
OptimosPorPotrero ==
    [k \in 1..Len(potreros) |->
        Optimos(tabla, reqs, args, potreros[k].cultivo, potreros[k].superficie_ha)]

Soluciones(opt) ==
    {sol \in [DOMAIN opt -> UNION {opt[k] : k \in DOMAIN opt}] :
        \A k \in DOMAIN opt : sol[k] \in opt[k]}

\* the status check left out: the export follows whatever the status is
ResolverCon_SinVerificar(opt) ==
    /\ x' = [k \in DOMAIN opt |-> [j \in 1..Len(tabla) |-> QZero]]
    /\ status' = IF \A k \in DOMAIN opt : opt[k] # {} THEN "Optimal" ELSE "Infeasible"
    /\ error' = error
    /\ pc' = "exportar"
    /\ exit_code' = exit_code

\* prob.solve and the status check, opt the optimal vertices of every field
ResolverCon(opt) ==
    IF \A k \in DOMAIN opt : opt[k] # {}
    THEN /\ x' \in Soluciones(opt)
         /\ status' = "Optimal"
         /\ error' = error
         /\ pc' = "exportar"
         /\ exit_code' = exit_code
    ELSE /\ x' = x
         /\ status' = "Infeasible"
         /\ error' = <<"modelo", status'>>
         /\ Termina(2)

\* lines 206-210
Resolver ==
    /\ pc = "resolver"
    /\ ResolverCon(OptimosPorPotrero)
    /\ UNCHANGED <<entradas, tabla, msgs, archivos>>

\* lines 215-223: the dose table is written
Exportar ==
    /\ pc = "exportar"
    /\ LET rows == FilasDesde(potreros, tabla, x, 1, 1)
       IN  IF rows = <<>>
           THEN \* DataFrame([]).sort_values([...]) raises KeyError
                /\ error' = <<"KeyError", "potrero">>
                /\ Termina(1)
                /\ UNCHANGED archivos
           ELSE /\ archivos' =
                       [archivos EXCEPT
                          ![CSV_OUT(args.tag)] = ArchivoCSV(SortValues(rows))]
                /\ error' = error
                /\ pc' = "resumen"
                /\ exit_code' = exit_code
    /\ UNCHANGED <<entradas, tabla, msgs, status, x>>

\* lines 225-237: the cost is added up, the summary is written after the
\* dose table and the script leaves with 0
Resumir ==
    /\ pc = "resumen"
    /\ archivos' =
           [archivos EXCEPT
              ![TXT_OUT(args.tag)] =
                  ArchivoTXT(CostoResumen(potreros, to_dict(tabla), args, x))]
    /\ error' = error
    /\ Termina(0)
    /\ UNCHANGED <<entradas, tabla, msgs, status, x>>

\* src/app/optimizador.py lines 901-904, p.unlink() in a try whose except
\* passes: a file that exists is removed, or stays when unlink raises (the
\* file is open elsewhere, the directory is read-only); a file that does
\* not exist is left alone
TrasUnlink(f) == IF f.existe THEN {SinArchivo, f} ELSE {f}

\* src/app/optimizador.py lines 898-919: run_solver tries to remove the two
\* output files of the tag and launches the script
Lanzar ==
    /\ pc = "lanzar"
    /\ \E c \in TrasUnlink(csv_out), t \in TrasUnlink(txt_out) :
          archivos' = [archivos EXCEPT ![CSV_OUT(args.tag)] = c,
                                       ![TXT_OUT(args.tag)] = t]
    /\ pc' = "cargar"
    /\ UNCHANGED <<entradas, tabla, msgs, status, x, error, exit_code>>

\* two runs of the script are two processes on one data directory: the
\* processor leaves the running one and takes up the other
Cambiar ==
    /\ otra # SinOtra
    /\ otra' = Corrida(args, reqpath, pc, tabla, msgs, status, x, error, exit_code)
    /\ args' = otra.args
    /\ reqpath' = otra.reqpath
    /\ pc' = otra.pc
    /\ tabla' = otra.tabla
    /\ msgs' = otra.msgs
    /\ status' = otra.status
    /\ x' = otra.x
    /\ error' = otra.error
    /\ exit_code' = otra.exit_code
    /\ UNCHANGED <<potreros, reqs, prods, columnas, archivos, session_state, pagina>>

Next == Cargar \/ Precheck \/ Construir \/ Resolver \/ Exportar \/ Resumir

Spec == Init /\ [][Next]_vars

\* the runs on a field table of at most one row: the precheck and the
\* constraints treat every field on its own
ArgumentosUnPotrero ==
    Argumentos \cup
    [nmax : {QInt(0)}, mixmax : {QInt(400)}, tol : {Q(2, 100)},
     costoap : {QZero}, tag : {"A"}]
InitUnPotrero ==
    /\ Entradas({pt \in TablasPotreros : Len(pt) <= 1}, TablasProductos,
                ArgumentosUnPotrero)
    /\ archivos = SinSalidas
    /\ otra = SinOtra
    /\ SinPanel
    /\ Arranque
SpecUnPotrero == InitUnPotrero /\ [][Next]_vars

\* the runs on product tables that carry a name on more than one row:
\* set_index("producto") takes such a table as it is.  Two rows of urea
\* that differ in their minimum dose, and two other products
Surtido ==
    <<Producto("Urea", QInt(46), QInt(0), QInt(0), QInt(450000), QInt(190), QInt(300)),
      Producto("Urea", QInt(46), QInt(0), QInt(0), QInt(450000), QInt(20), QInt(300)),
      Catalogo[2], Catalogo[3]>>

\* the tables of two or three rows of Surtido with a name on two rows
TablasRepetidas ==
    {[j \in 1..Len(f) |-> Surtido[f[j]]] :
        f \in {g \in UNION {[1..n -> 1..Len(Surtido)] : n \in 2..3} :
                 \E j, k \in 1..Len(g) :
                    j < k /\ Surtido[g[j]].producto = Surtido[g[k]].producto}}

ArgumentosRepetidos ==
    [nmax : {QInt(0)}, mixmax : {QInt(0), QInt(200), QInt(600)}, tol : {Q(2, 100)},
     costoap : {QZero}, tag : {"A"}]

InitRepetidos ==
    /\ Entradas({pt \in TablasPotreros : Len(pt) = 1 /\ pt[1].cultivo # "avena"},
                TablasRepetidas, ArgumentosRepetidos)
    /\ archivos = SinSalidas
    /\ otra = SinOtra
    /\ SinPanel
    /\ Arranque
SpecRepetidos == InitRepetidos /\ [][Next]_vars

(***************************************************************************)
(* The runs in their surroundings: launched from the command line or by    *)
(* the page's run_solver, with or without --reqpath, in a data directory   *)
(* that may hold the outputs of earlier runs, on tables that may lack a    *)
(* column.                                                                 *)
(***************************************************************************)
\* the outputs left by earlier successful runs with tags A and B
Viejos ==
    [r \in Rutas |->
        IF r[2] = "" THEN SinArchivo
        ELSE IF r[1] = "resultados_dosis"
        THEN ArchivoCSV(<<[potrero |-> "P9", producto |-> "Urea", kg_ha |-> QInt(1)]>>)
        ELSE ArchivoTXT(1)]

\* the headers with one required column left out
SinColumna ==
    {[Completas EXCEPT !.potreros = @ \ {c}] : c \in Completas.potreros}
        \cup {[Completas EXCEPT !.reqs = @ \ {c}] : c \in Completas.reqs}
        \cup {[Completas EXCEPT !.prods = @ \ {c}] : c \in Completas.prods}

\* the headers cols with the header de written as a
Renombrar(cols, de, a) == IF de \in cols THEN (cols \ {de}) \cup {a} ELSE cols

\* the headers the tolerant reader corrects
Corregibles ==
    {[Completas EXCEPT !.reqs = Renombrar(@, Escrito("cultivo"), Escrito("Cultivo"))],
     [Completas EXCEPT !.reqs = Renombrar(@, Escrito("P2O5_req_kg_ha"),
                                             Escrito("P205_req_kg_ha"))],
     [Completas EXCEPT !.prods = Renombrar(@, Escrito("producto"), Escrito("Producto"))]}

\* the ways one header is padded: a blank after it, a blank before it, a
\* byte order mark before it, and a mark then a blank, which strip() leaves
Rellenos(nombre) ==
    {<<nombre, Blanco>>, <<Blanco, nombre>>, <<BOM, nombre>>, <<BOM, Blanco, nombre>>}

\* the headers with one name padded
Rellenados ==
    {[Completas EXCEPT !.potreros = Renombrar(@, Escrito("cultivo"), h)] :
        h \in Rellenos("cultivo")}
        \cup {[Completas EXCEPT !.reqs = Renombrar(@, Escrito("cultivo"), h)] :
                h \in Rellenos("Cultivo")}
        \cup {[Completas EXCEPT !.prods = Renombrar(@, Escrito("N_pct"), h)] :
                h \in Rellenos("N_pct")}

\* the headers with one more, whose label after line 41 another column has
Repetidos ==
    {[Completas EXCEPT !.reqs = @ \cup {<<Blanco, "cultivo">>}],
     [Completas EXCEPT !.reqs = @ \cup {Escrito("P205_req_kg_ha")}],
     [Completas EXCEPT !.prods = @ \cup {<<BOM, "producto">>}],
     [Completas EXCEPT !.prods = @ \cup {<<"N_pct", Blanco>>}],
     [Completas EXCEPT !.potreros = @ \cup {<<Blanco, "potrero">>}],
     [Completas EXCEPT !.potreros = @ \cup {<<"cultivo", Blanco>>}],
     [Completas EXCEPT !.potreros = @ \cup {<<BOM, "superficie_ha">>}]}

ArgumentosEntorno ==
    [nmax : {QInt(0)}, mixmax : {QInt(0), QInt(200), QInt(400), QInt(600)},
     tol : {Q(2, 100)}, costoap : {QZero}, tag : {"A"}]

InitEntorno ==
    /\ potreros \in {pt \in TablasPotreros : Len(pt) = 1}
    /\ reqs = Requerimientos
    /\ \/ /\ columnas = Completas
          /\ prods \in TablasProductos
          /\ args \in ArgumentosEntorno
          /\ reqpath \in {SinReqpath, "requerimientos.csv"}
       \/ /\ columnas \in SinColumna \cup Corregibles \cup Rellenados \cup Repetidos
          /\ prods = SubTabla({1, 2}, 1)
          /\ args \in {a \in ArgumentosEntorno : a.mixmax = QInt(0)}
          /\ reqpath = SinReqpath
    /\ archivos \in {SinSalidas, Viejos}
    /\ otra = SinOtra
    /\ SinPanel
    /\ tabla = <<>>
    /\ msgs = <<>>
    /\ status = "Not Solved"
    /\ x = <<>>
    /\ error = SinError
    /\ exit_code = -1
    /\ pc \in {"cargar", "lanzar"}

NextEntorno == Lanzar \/ Next

SpecEntorno == InitEntorno /\ [][NextEntorno]_vars

(***************************************************************************)
(* Two runs on the same tables: scenario A and scenario B, or the same     *)
(* scenario run twice.                                                     *)
(***************************************************************************)
\* three crops on three product tables: one on which the mix ceiling binds,
\* one with two offers of the same analysis at the same price (the third row
\* repeats the first under another name), one on which the nitrogen ceiling
\* binds
EscenariosAB ==
    { [cultivo |-> "trigo", prods |-> SubTabla({1, 2, 4}, 1)],
      [cultivo |-> "trigo",
       prods |-> <<Catalogo[1], Catalogo[2],
                   Producto("Mezcla", QInt(46), QInt(0), QInt(0), QInt(450000),
                            QInt(0), QInt(300))>>],
      [cultivo |-> "alfalfa", prods |-> SubTabla({2, 3, 4}, 1)] }

ArgumentosAB(tag) ==
    [nmax : {QInt(0), QInt(30)}, mixmax : {QInt(0), QInt(600)},
     tol : {Q(2, 100), Q(5, 100)}, costoap : {QZero}, tag : {tag}]

InitAB ==
    /\ \E e \in EscenariosAB :
          /\ potreros = <<[potrero |-> NombrePotrero[1], cultivo |-> e.cultivo,
                           superficie_ha |-> SuperficiePotrero[1]]>>
          /\ prods = e.prods
    /\ reqs = Requerimientos
    /\ columnas = Completas
    \* the run with the smaller tolerance has tag A: the runs differ in
    \* nothing but the tag, and either may go first
    /\ args \in {a \in ArgumentosAB("A") : a.tol = Q(2, 100)}
    /\ reqpath = SinReqpath
    /\ otra \in {Pendiente(b, SinReqpath) : b \in ArgumentosAB("B") \cup {args}}
    /\ archivos = SinSalidas
    /\ SinPanel
    /\ Arranque

NextAB == Next \/ Cambiar

SpecAB == InitAB /\ [][NextAB]_vars

(***************************************************************************)
(* The runs on product tables with cells that cannot be parsed and with    *)
(* minimum doses around the export threshold.                              *)
(***************************************************************************)
\* potassium chloride with a minimum dose of dmin
KClCon(dmin) ==
    Producto("KCl", QInt(0), QInt(0), QInt(60), QInt(500000), dmin, QInt(200))

\* minimum doses below, at and above 1e-6, one that rounds to 0.0, two
\* halfway between two hundredths as decimals and off it as doubles, none
DminFinos ==
    {Q(1, 2000000), Q(1, 1000000), Q(1, 500000), Q(4, 1000), Q(2675, 1000),
     Q(15, 1000), QZero}

\* product tables with one unparseable cell: a maximum dose, a price, a
\* minimum dose, a nutrient percentage
ConNaN ==
    { <<Catalogo[1], Catalogo[2], [Catalogo[4] EXCEPT !.dosis_max_kg_ha = NaN]>>,
      <<[Catalogo[1] EXCEPT !.precio_CLP_ton = NaN], Catalogo[2]>>,
      <<Catalogo[1], Catalogo[2], [Catalogo[3] EXCEPT !.dosis_min_kg_ha = NaN]>>,
      <<Catalogo[1], [Catalogo[2] EXCEPT !.N_pct = NaN]>> }

ProductosFinos ==
    {<<Catalogo[1], Catalogo[2], KClCon(d)>> : d \in DminFinos} \cup ConNaN

ArgumentosFinos ==
    [nmax : {QInt(0), QInt(300)}, mixmax : {QInt(0)}, tol : {Q(2, 100)},
     costoap : {QZero, QInt(50000)}, tag : {"A"}]

InitFino ==
    /\ Entradas({pt \in TablasPotreros : Len(pt) = 1 /\ pt[1].cultivo # "avena"},
                ProductosFinos, ArgumentosFinos)
    /\ archivos = SinSalidas
    /\ otra = SinOtra
    /\ SinPanel
    /\ Arranque

SpecFino == InitFino /\ [][Next]_vars

(***************************************************************************)
(* The page: a session of optimizador.py or of                             *)
(* optimizador_respaldo_1610.py.  optimizador.py hands every call of       *)
(* run_solver a --reqpath, has the soil section that may end the script    *)
(* run early, and has the export section; the backup page launches the     *)
(* solver without --reqpath and has neither section.  reqpath tells the    *)
(* two apart.  Every interaction reruns the page script from the top; the  *)
(* button run_ab makes the rerun execute scenarios A and B, the buttons    *)
(* of the input sections make it rewrite the tables of the data directory. *)
(***************************************************************************)
\* ok computed from the files alone
run_solver_ok_SinCodigo(returncode, arch, tag) ==
    arch[CSV_OUT(tag)].existe /\ arch[TXT_OUT(tag)].existe

\* optimizador.py 920: the result of run_solver
run_solver_ok(returncode, arch, tag) ==
    returncode = 0 /\ arch[CSV_OUT(tag)].existe /\ arch[TXT_OUT(tag)].existe

\* the export section judged from the files on disk alone
ExportarReportes_SoloArchivos(ctx, arch) ==
    IF arch[CSV_OUT("A")].existe /\ arch[CSV_OUT("B")].existe
    THEN "descargas" ELSE "aviso"

\* optimizador.py 1220-1233: what the export section shows
ExportarReportes(ctx, arch) ==
    IF /\ ctx.okA /\ ctx.okB /\ ctx.csvA # None /\ ctx.csvB # None
       /\ arch[ctx.csvA[1]].existe /\ arch[ctx.csvB[1]].existe
    THEN "descargas" ELSE "aviso"

\* the export section of a session launched with rp: optimizador.py has
\* it, optimizador_respaldo_1610.py ends after the persistent render
SeccionExportar(rp, ctx, arch) ==
    IF rp = SinReqpath THEN "nada" ELSE ExportarReportes(ctx, arch)

\* optimizador.py 1128-1130: the guard of the persistent render
RenderPersistente(ss) ==
    (ss.last_run.okA \/ ss.last_run.okB) /\ ~ss.already_rendered

\* optimizador.py 412-413: the columns the soil section asks of the field
\* table and of the requirement table
ColumnasSuelo ==
    [potreros |-> {"potrero", "cultivo", "superficie_ha"},
     reqs     |-> {"cultivo", "N_req_kg_ha", "P2O5_req_kg_ha", "K2O_req_kg_ha"}]

\* optimizador.py 409-421: the soil section reads both tables with the
\* page's own reader, which corrects no header, and ends the script run
\* (st.stop) when one of them lacks a column under its plain name; the
\* backup page has no soil section
DetenidaEnSuelo(rp, cols) ==
    /\ rp # SinReqpath
    /\ \E tb \in DOMAIN ColumnasSuelo :
          \E c \in ColumnasSuelo[tb] : Escrito(c) \notin cols[tb]

\* what a run of the script shows when the button run_ab is not pressed
SinPulsar(rp, cols, ss, arch) ==
    IF DetenidaEnSuelo(rp, cols) THEN SinRender
    ELSE [inmediato |-> FALSE,
          persistente |-> RenderPersistente(ss),
          exportar |-> SeccionExportar(rp, ss.last_run, arch)]

\* the values of the widgets of scenario tag
ArgumentosPanel(tag) ==
    {a \in [nmax : {QInt(0)}, mixmax : {QInt(0), QInt(200)},
            tol : {Q(2, 100), Q(5, 100)}, costoap : {QZero}, tag : {tag}] :
        a.mixmax = QInt(0) \/ a.tol = Q(2, 100)}

\* subprocess.run starting the solver with the arguments a
Subproceso(a) ==
    /\ args' = a
    /\ pc' = "lanzar"
    /\ tabla' = <<>>
    /\ msgs' = <<>>
    /\ status' = "Not Solved"
    /\ x' = <<>>
    /\ error' = SinError
    /\ exit_code' = -1

\* the field table the session starts with
PotrerosPanel ==
    <<[potrero |-> NombrePotrero[1], cultivo |-> "trigo",
       superficie_ha |-> SuperficiePotrero[1]]>>

\* no file chosen in an uploader
NoSubido == <<>>

\* the files a user may have chosen in the three uploaders: a table and
\* its headers
SubidasPotreros ==
    {[filas |-> PotrerosPanel,
      columnas |-> Completas.potreros \ {Escrito("superficie_ha")}]}
SubidasReqs ==
    {[filas |-> [c \in {"alfalfa", "barbecho"} |-> Requerimientos[c]],
      columnas |-> Completas.reqs]}
SubidasProds ==
    {[filas |-> SubTabla({1}, 1), columnas |-> Completas.prods]}

\* the file of an uploader, or the table of the data directory when no
\* file was chosen
Guardado(subido, actual) == IF subido = NoSubido THEN actual ELSE subido[1]

\* the polygons of data/potreros.geojson: the name and crop among their
\* properties ("SinNombre" and "SinCultivo" when missing) and their area in
\* hectares, none of them halfway between two multiples of 1/1000
Mapas ==
    {<<>>,
     <<[potrero |-> NombrePotrero[1], cultivo |-> "SinCultivo", area_ha |-> Q(123456, 10000)]>>}

\* optimizador.py 358: round(area_ha, 3) of an area that is no tie
Round3(a) == Q(RoundHalfEven(QMul(a, QInt(1000))), 1000)

\* sorted(): the crop names of the tables in lexicographic order
CultivosOrdenados == <<"alfalfa", "avena", "barbecho", "trigo">>

\* optimizador.py 365 and 371: cultivos_posibles[0], the first crop of
\* the requirement table in sorted order
PrimerCultivo(rq) ==
    CultivosOrdenados[Minimo({t \in DOMAIN CultivosOrdenados :
                                CultivosOrdenados[t] \in DOMAIN rq})]

\* optimizador.py 363-372: the crop of a polygon once those that the
\* requirement table does not list are replaced by its first crop; the
\* table is read here with pandas alone, so a table without a column
\* headed cultivo leaves the crops as they are
CultivoEditado(cult, rq, colsReqs) ==
    IF Escrito("cultivo") \notin colsReqs \/ DOMAIN rq = {} \/ cult \in DOMAIN rq
    THEN cult ELSE PrimerCultivo(rq)

\* optimizador.py 346-380: the rows of potreros.csv made from the polygons
FilasDelMapa(mapa, rq, colsReqs) ==
    [k \in 1..Len(mapa) |->
        [potrero |-> mapa[k].potrero,
         cultivo |-> CultivoEditado(mapa[k].cultivo, rq, colsReqs),
         superficie_ha |-> Round3(mapa[k].area_ha)]]

InitPanel ==
    /\ potreros = PotrerosPanel
    /\ reqs = Requerimientos
    /\ prods = SubTabla({1, 2}, 1)
    /\ columnas = Completas
    /\ args \in {a \in ArgumentosPanel("A") : a.tol = Q(2, 100) /\ a.mixmax = QInt(0)}
    /\ reqpath \in {SinReqpath, "requerimientos.csv"}
    /\ archivos \in {SinSalidas, Viejos}
    /\ otra = SinOtra
    /\ session_state = SesionInicial
    /\ pagina = [fase |-> "reposo", argsB |-> args, okA |-> FALSE, okB |-> FALSE,
                 ultimo |-> "ninguno", render |-> SinRender]
    /\ pc = "reposo"
    /\ tabla = <<>>
    /\ msgs = <<>>
    /\ status = "Not Solved"
    /\ x = <<>>
    /\ error = SinError
    /\ exit_code = -1

\* optimizador.py 929-937: the button pressed in a run of the script that
\* reaches the handler; the first call of run_solver
Pulsar ==
    /\ pc = "reposo"
    /\ ~DetenidaEnSuelo(reqpath, columnas)
    /\ session_state' = [session_state EXCEPT !.already_rendered = TRUE]
    /\ \E a \in ArgumentosPanel("A"), b \in ArgumentosPanel("B") :
          /\ Subproceso(a)
          /\ pagina' = [fase |-> "A", argsB |-> b, okA |-> FALSE, okB |-> FALSE,
                        ultimo |-> "ejecucion", render |-> SinRender]
    /\ UNCHANGED <<potreros, reqs, prods, columnas, reqpath, otra, archivos>>

\* optimizador.py 919-921: the solver ended, run_solver returns
Retornar ==
    /\ pc = "fin"
    /\ pagina.fase \in {"A", "B"}
    /\ pc' = "retorno"
    /\ LET ok == run_solver_ok(exit_code, archivos, args.tag)
       IN  pagina' = IF pagina.fase = "A" THEN [pagina EXCEPT !.okA = ok]
                     ELSE [pagina EXCEPT !.okB = ok]
    /\ UNCHANGED <<potreros, reqs, prods, columnas, args, reqpath, otra,
                   session_state, tabla, msgs, status, x, error, exit_code, archivos>>

\* optimizador.py 938: the second call of run_solver
Seguir ==
    /\ pc = "retorno"
    /\ pagina.fase = "A"
    /\ Subproceso(pagina.argsB)
    /\ pagina' = [pagina EXCEPT !.fase = "B"]
    /\ UNCHANGED <<potreros, reqs, prods, columnas, reqpath, otra, archivos,
                   session_state>>

\* the solver processes of the execution are gone, and their variables
\* with them
FinDelProceso ==
    /\ tabla' = <<>>
    /\ msgs' = <<>>
    /\ status' = "Not Solved"
    /\ x' = <<>>
    /\ error' = SinError
    /\ exit_code' = -1

\* optimizador.py 980-991: last_run after an execution with outcomes okA, okB
LastRunDe(okA, okB, arch) ==
    [okA |-> okA, okB |-> okB,
     csvA |-> IF okA THEN <<CSV_OUT("A")>> ELSE None,
     csvB |-> IF okB THEN <<CSV_OUT("B")>> ELSE None,
     txtA |-> IF okA THEN <<TXT_OUT("A")>> ELSE None,
     txtB |-> IF okB THEN <<TXT_OUT("B")>> ELSE None,
     costoA |-> IF okA THEN <<costo_total_desde_txt(arch[TXT_OUT("A")])>> ELSE None,
     costoB |-> IF okB THEN <<costo_total_desde_txt(arch[TXT_OUT("B")])>> ELSE None]

\* optimizador.py 941-1233, optimizador_respaldo_1610.py 630-910: the rest
\* of the script after the two calls: st.stop() when both failed, else the
\* results are stored and shown, and the persistent render and, in
\* optimizador.py, the export section follow
Registrar ==
    /\ pc = "retorno"
    /\ pagina.fase = "B"
    /\ pc' = "reposo"
    /\ IF ~pagina.okA /\ ~pagina.okB
       THEN /\ session_state' = session_state
            /\ pagina' = [pagina EXCEPT !.fase = "reposo", !.render = SinRender]
       ELSE /\ session_state' = [session_state EXCEPT
                                    !.last_run = LastRunDe(pagina.okA, pagina.okB, archivos)]
            /\ pagina' = [pagina EXCEPT
                            !.fase = "reposo",
                            !.render = [inmediato |-> TRUE,
                                        persistente |-> RenderPersistente(session_state'),
                                        exportar |-> SeccionExportar(reqpath,
                                                                     session_state'.last_run,
                                                                     archivos)]]
    /\ FinDelProceso
    /\ UNCHANGED <<potreros, reqs, prods, columnas, args, reqpath, otra, archivos>>

\* a rerun of the script that presses no button and rewrites no table
Recargar ==
    /\ pc = "reposo"
    /\ pagina' = [pagina EXCEPT
                    !.ultimo = "recarga",
                    !.render = SinPulsar(reqpath, columnas, session_state, archivos)]
    /\ UNCHANGED <<potreros, reqs, prods, columnas, args, reqpath, otra,
                   session_state, pc, tabla, msgs, status, x, error, exit_code, archivos>>

\* optimizador.py 261-268, optimizador_respaldo_1610.py 467-474: the button
\* "Guardar archivos" writes every chosen file over the table of its name;
\* the rest of the script follows on the tables as they now are
GuardarArchivos ==
    /\ pc = "reposo"
    /\ \E sp \in {NoSubido} \cup {<<f>> : f \in SubidasPotreros},
          sr \in {NoSubido} \cup {<<f>> : f \in SubidasReqs},
          sd \in {NoSubido} \cup {<<f>> : f \in SubidasProds} :
          LET gp == Guardado(sp, [filas |-> potreros, columnas |-> columnas.potreros])
              gr == Guardado(sr, [filas |-> reqs, columnas |-> columnas.reqs])
              gd == Guardado(sd, [filas |-> prods, columnas |-> columnas.prods])
          IN  /\ potreros' = gp.filas
              /\ reqs' = gr.filas
              /\ prods' = gd.filas
              /\ columnas' = [potreros |-> gp.columnas, reqs |-> gr.columnas,
                              prods |-> gd.columnas]
    /\ pagina' = [pagina EXCEPT
                    !.ultimo = "recarga",
                    !.render = SinPulsar(reqpath, columnas', session_state, archivos)]
    /\ UNCHANGED <<args, reqpath, otra, session_state, pc, tabla, msgs, status, x,
                   error, exit_code, archivos>>

\* optimizador.py 342-381, optimizador_respaldo_1610.py 580-619: the button
\* "Calcular areas y crear potreros.csv" writes the field table made from
\* the polygons, unless there is none; the rest of the script follows
CrearPotreros ==
    /\ pc = "reposo"
    /\ \E mapa \in Mapas :
          IF mapa = <<>>
          THEN UNCHANGED <<potreros, columnas>>
          ELSE /\ potreros' = FilasDelMapa(mapa, reqs, columnas.reqs)
               /\ columnas' = [columnas EXCEPT !.potreros = Completas.potreros]
    /\ pagina' = [pagina EXCEPT
                    !.ultimo = "recarga",
                    !.render = SinPulsar(reqpath, columnas', session_state, archivos)]
    /\ UNCHANGED <<reqs, prods, args, reqpath, otra, session_state, pc, tabla, msgs,
                   status, x, error, exit_code, archivos>>

NextPanel ==
    Pulsar \/ Lanzar \/ Next \/ Retornar \/ Seguir \/ Registrar \/ Recargar
        \/ GuardarArchivos \/ CrearPotreros

SpecPanel == InitPanel /\ [][NextPanel]_vars

(***************************************************************************)
(* Properties of a run.                                                    *)
(***************************************************************************)
\* the run ended with exit code 0
RunOk == pc = "fin" /\ exit_code = 0

\* the supply of nutrient nut by the doses of one field
Aporte(tb, dosis, nut) == Dot([j \in 1..Len(tb) |-> Frac(tb, j, nut)], dosis)

\* requirement x (1 - tolerance)
Exigido(k, nut) == QMul(QSub(QInt(1), args.tol), Req(reqs, potreros[k].cultivo, nut))

\* C1: after a successful run, in every field the supply of each of N, P2O5
\* and K2O by the solved doses is at least requirement x (1 - tolerance) of
\* the field's crop.
C1_NutrientesCubiertos ==
    RunOk => \A k \in 1..Len(potreros) : \A t \in 1..3 :
                QLe(Exigido(k, Nutrientes[t]), Aporte(tabla, x[k], Nutrientes[t]))

\* a successful run with a field whose nitrogen supply is the tolerated
\* requirement exactly, below the full requirement
C1_Witness ==
    /\ RunOk
    /\ \E k \in 1..Len(potreros) :
          /\ potreros[k].cultivo = "trigo"
          /\ Aporte(tabla, x[k], "N") = Exigido(k, "N")
          /\ QLt(Aporte(tabla, x[k], "N"), reqs["trigo"].N_req_kg_ha)

\* C2: after a successful run with mixmax > 0, the doses of every field add
\* up to at most mixmax.
C2_MezclaBajoTope ==
    (RunOk /\ MixActivo(args)) => \A k \in 1..Len(potreros) : QLe(QSum(x[k]), args.mixmax)

\* a successful run in which the mix of a field fills the ceiling
C2_Witness ==
    /\ RunOk
    /\ MixActivo(args)
    /\ \E k \in 1..Len(potreros) : QSum(x[k]) = args.mixmax

\* C3: after a successful run with nmax > 0, the nitrogen supplied to every
\* field is at most nmax; the precheck's bounds on P2O5 and K2O are the
\* same as without a nitrogen ceiling.
C3_NitrogenoBajoTope ==
    /\ (RunOk /\ NmaxActivo(args)) =>
          \A k \in 1..Len(potreros) : QLe(Aporte(tabla, x[k], "N"), args.nmax)
    /\ pc = "precheck" =>
          \A nut \in {"P2O5", "K2O"} :
             FCmp(CotaMaxF(tabla, args, nut),
                  CotaMaxF(tabla, [args EXCEPT !.nmax = QZero], nut)) = 0

\* a successful run in which the nitrogen of a field is at the ceiling and
\* its P2O5 supply is above that ceiling
C3_Witness ==
    /\ RunOk
    /\ NmaxActivo(args)
    /\ \E k \in 1..Len(potreros) :
          /\ Aporte(tabla, x[k], "N") = args.nmax
          /\ QLt(args.nmax, Aporte(tabla, x[k], "P2O5"))

\* the field and the product of a row of the dose table
IndicePotrero(r) == CHOOSE k \in 1..Len(potreros) : potreros[k].potrero = r.potrero
IndiceProducto(r) == CHOOSE j \in 1..Len(tabla) : tabla[j].producto = r.producto
DosisResuelta(r) == x[IndicePotrero(r)][IndiceProducto(r)]

\* v lies in [dosis_min_kg_ha, dosis_max_kg_ha] of product j
EnIntervalo(j, v) == EnCotas(tabla[j].dosis_min_kg_ha, v, tabla[j].dosis_max_kg_ha)

\* both bounds of product j are multiples of 0.01
CotasDeDosDecimales(j) ==
    /\ Round2(tabla[j].dosis_min_kg_ha) = tabla[j].dosis_min_kg_ha
    /\ Round2(tabla[j].dosis_max_kg_ha) = tabla[j].dosis_max_kg_ha

\* C4 as stated: every kg_ha written to the dose table lies within
\* [dosis_min_kg_ha, dosis_max_kg_ha] of its product.
C4_EscritaEnIntervalo ==
    RunOk => \A i \in 1..Len(csv_out.filas) :
                EnIntervalo(IndiceProducto(csv_out.filas[i]), csv_out.filas[i].kg_ha)

\* C4 amended: every kg_ha written is the two-decimal rounding of a solved
\* dose that lies within [dosis_min_kg_ha, dosis_max_kg_ha] of its product,
\* and lies within that interval itself when both bounds are multiples of
\* 0.01.
C4_ResueltaEnIntervalo ==
    RunOk => \A i \in 1..Len(csv_out.filas) :
                /\ csv_out.filas[i].kg_ha = Round2(DosisResuelta(csv_out.filas[i]))
                /\ EnIntervalo(IndiceProducto(csv_out.filas[i]), DosisResuelta(csv_out.filas[i]))
                /\ CotasDeDosDecimales(IndiceProducto(csv_out.filas[i])) =>
                      EnIntervalo(IndiceProducto(csv_out.filas[i]), csv_out.filas[i].kg_ha)

\* a successful run that wrote a dose changed by the rounding, of a
\* product whose bounds are multiples of 0.01, and a dose at its maximum
C4_Witness ==
    /\ RunOk
    /\ \E i \in 1..Len(csv_out.filas) :
          /\ csv_out.filas[i].kg_ha # DosisResuelta(csv_out.filas[i])
          /\ CotasDeDosDecimales(IndiceProducto(csv_out.filas[i]))
    /\ \E i \in 1..Len(csv_out.filas) :
          csv_out.filas[i].kg_ha = tabla[IndiceProducto(csv_out.filas[i])].dosis_max_kg_ha

\* the objective of one field as the specification states it: dose x area x
\* (price_per_ton / 1000), plus dose x area x (costoap / 1000) if costoap > 0
TerminoObjetivo(tb, a, sup, j, d) ==
    MAdd(MMul(d, QMul(sup, QDiv(tb[j].precio_CLP_ton, QInt(1000)))),
         IF QSign(a.costoap) > 0
         THEN MMul(d, QMul(sup, QDiv(a.costoap, QInt(1000)))) ELSE MZero)
Objetivo(tb, a, sup, dosis) ==
    MSum([j \in 1..Len(tb) |-> TerminoObjetivo(tb, a, sup, j, dosis[j])])

\* a grid over the box of the dose bounds
PuntoMalla(lo, hi, t) == QAdd(lo, QMul(Q(t, PasosMalla), QSub(hi, lo)))
PuntosMalla(tb, j) ==
    {PuntoMalla(QMax(QZero, tb[j].dosis_min_kg_ha), tb[j].dosis_max_kg_ha, t) :
        t \in 0..PasosMalla}
RECURSIVE MallaDesde(_, _)
MallaDesde(tb, j) ==
    IF j > Len(tb) THEN {<<>>}
    ELSE {<<p>> \o r : p \in PuntosMalla(tb, j), r \in MallaDesde(tb, j + 1)}

\* the grid doses that satisfy every constraint of field k
AlternativasCon(rs, D) == {d \in D : FactibleCon(rs, tabla, d)}
Alternativas(k) ==
    AlternativasCon(Restricciones(tabla, reqs, args, potreros[k].cultivo),
                    MallaDesde(tabla, 1))

NoSuperaA(costo, k, D) ==
    \A d \in D : MLe(costo, Objetivo(tabla, args, potreros[k].superficie_ha, d))

\* C5: after a successful run no dose assignment that satisfies the
\* nutrient, mix, nitrogen and bound constraints costs less than the solved
\* one (fields are independent, so field by field; the alternatives are the
\* grid doses).
C5_CostoMinimo ==
    RunOk => \A k \in 1..Len(potreros) :
                NoSuperaA(Objetivo(tabla, args, potreros[k].superficie_ha, x[k]),
                          k, Alternativas(k))

\* a successful run with an application cost in which a field has a feasible
\* alternative that costs strictly more than the solved doses
C5_Witness ==
    /\ RunOk
    /\ QSign(args.costoap) > 0
    /\ \E k \in 1..Len(potreros) : \E d \in Alternativas(k) :
          ~MLe(Objetivo(tabla, args, potreros[k].superficie_ha, d),
               Objetivo(tabla, args, potreros[k].superficie_ha, x[k]))

\* the cost of one row of the dose table: kg_ha x area x price term
CostoFila(r) ==
    TerminoObjetivo(tabla, args, potreros[IndicePotrero(r)].superficie_ha,
                    IndiceProducto(r), r.kg_ha)

\* the total cost recomputed from the written dose table, as an integer
CostoDesdeTabla(filas) == MRound(MSum([i \in 1..Len(filas) |-> CostoFila(filas[i])]))

\* C6: after a successful run the total cost recomputed from the written
\* dose table equals the integer written in the cost summary.
C6_CostoReconciliable ==
    RunOk => CostoDesdeTabla(csv_out.filas) = txt_out.costo

\* The scenario of C7: one field of 10 ha with requirement (160, 70, 0), a
\* product with 46% N at 450000 and one with 11% N and 52% P2O5 at 620000,
\* both with doses in [0, 300], tolerance 0.02, mixmax 600, nmax 300 and no
\* application cost.
Escenario ==
    /\ Len(potreros) = 1
    /\ potreros[1].superficie_ha = QInt(10)
    /\ potreros[1].cultivo \in DOMAIN reqs
    /\ reqs[potreros[1].cultivo] = Requerimiento(160, 70, 0)
    /\ prods = << Producto("Urea", QInt(46), QInt(0), QInt(0), QInt(450000), QInt(0), QInt(300)),
                  Producto("MAP", QInt(11), QInt(52), QInt(0), QInt(620000), QInt(0), QInt(300)) >>
    /\ args.tol = Q(2, 100)
    /\ args.mixmax = QInt(600)
    /\ args.nmax = QInt(300)
    /\ args.costoap = QZero

\* C7: in the scenario the precheck emits no diagnostic, the solve is
\* Optimal and the run succeeds; the doses supply N >= 156.8 and
\* P2O5 >= 68.6 with a mix of at most 600 and N <= 300, at the least cost
\* (26506000/11, that of 300 of the first product and 1880/11 of the second).
C7_Escenario ==
    Escenario =>
        /\ msgs = <<>>
        /\ pc \in {"exportar", "resumen", "fin"} =>
              /\ status = "Optimal"
              /\ QLe(Q(1568, 10), Aporte(tabla, x[1], "N"))
              /\ QLe(Q(686, 10), Aporte(tabla, x[1], "P2O5"))
              /\ QLe(QSum(x[1]), QInt(600))
              /\ QLe(Aporte(tabla, x[1], "N"), QInt(300))
              /\ Objetivo(tabla, args, QInt(10), x[1]) = MOfQ(Q(26506000, 11))
              /\ NoSuperaA(MOfQ(Q(26506000, 11)), 1, Alternativas(1))
        /\ pc = "fin" => exit_code = 0

\* the scenario has run to its end and written its files
C7_Witness ==
    /\ Escenario
    /\ RunOk
    /\ status = "Optimal"
    /\ csv_out.existe /\ txt_out.existe

\* the exact sum of the minimum doses of the products
MinMixTotal(tb) == QSum([j \in 1..Len(tb) |-> tb[j].dosis_min_kg_ha])

\* the exact sum of dmax x fraction over the products
MaxPorDmax(tb, nut) ==
    QSum([j \in 1..Len(tb) |-> QMul(tb[j].dosis_max_kg_ha, Frac(tb, j, nut))])

\* the precheck is over
TrasPrecheck == pc \notin {"cargar", "precheck"}

\* C8: whenever mixmax > 0 and the minimum doses of the products add up to
\* more than mixmax, the run ends with an error at the precheck: the linear
\* program is neither built nor solved.
C8_RechazoPorDmin ==
    (TrasPrecheck /\ MixActivo(args) /\ QLt(args.mixmax, MinMixTotal(tabla))) =>
        (pc = "fin" /\ exit_code # 0 /\ status = "Not Solved")

\* the messages of the precheck, as a set
Emitidos == {msgs[i] : i \in 1..Len(msgs)}

\* requirement x (1 - tolerance), in the doubles of the script
ExigidoF(k, nut) == ReqEfectivoF(reqs, args, potreros[k].cultivo, nut)

\* the bound B of C9 for one nutrient, in the doubles of the script: the
\* sum of dmax x fraction, tightened to mixmax x the largest fraction and,
\* for nitrogen, to nmax
CotaMezcla(B, nut) ==
    IF QSign(args.mixmax) > 0
    THEN FMinF(B, FMul(FOfQ(args.mixmax), FracMaxF(tabla, nut)))
    ELSE B
CotaNitrogeno(B, nut) ==
    IF nut = "N" /\ QSign(args.nmax) > 0 THEN FMinF(B, FOfQ(args.nmax)) ELSE B
CotaB(nut) == CotaNitrogeno(CotaMezcla(MaxPorDmaxF(tabla, nut), nut), nut)

\* the precheck has just run: the program is about to be built, or the run
\* has ended on the diagnostics.  The inputs never change, so what holds of
\* the diagnostics here holds of them in every later state where they are
\* the same.
SalidaDelPrecheck == pc = "modelo" \/ (pc = "fin" /\ msgs # <<>>)

\* C9: the precheck emits a diagnostic for a field and a nutrient exactly
\* when requirement x (1 - tol) exceeds, by more than 1e-6, the bound B: the
\* sum of dmax x fraction, tightened to mixmax x the largest fraction when
\* mixmax > 0 and, for nitrogen only, to nmax when nmax > 0.  A run that
\* goes on past the precheck has no diagnostic.
C9_DiagnosticoExacto ==
    /\ (SalidaDelPrecheck /\ ~CultivoDesconocido(potreros, reqs)) =>
          \A t \in 1..3 :
              LET B == CotaB(Nutrientes[t])
              IN  \A k \in 1..Len(potreros) :
                      (Diag(potreros[k].potrero, Nutrientes[t]) \in Emitidos)
                          <=> FGtEps(ExigidoF(k, Nutrientes[t]), B, FOfQ(<<1, 1000000>>))
    /\ (TrasPrecheck /\ ~SalidaDelPrecheck) => msgs = <<>>

\* a precheck that reports the nitrogen of a field because of the mix
\* ceiling alone (the maximum doses would supply enough) and does not
\* report its P2O5
C9_Witness ==
    /\ TrasPrecheck
    /\ \E k \in 1..Len(potreros) :
          /\ potreros[k].cultivo \in DOMAIN reqs
          /\ Diag(potreros[k].potrero, "N") \in Emitidos
          /\ Diag(potreros[k].potrero, "P2O5") \notin Emitidos
          /\ QLe(Exigido(k, "N"), MaxPorDmax(tabla, "N"))
          /\ QLt(QZero, Exigido(k, "P2O5"))

\* field k is named in a diagnostic of the precheck
Diagnosticado(k) ==
    \E tipo \in {"dmin", "N", "P2O5", "K2O"} : Diag(potreros[k].potrero, tipo) \in Emitidos

\* the constraints of a field with crop cult can be satisfied: its polytope
\* is bounded, so it is non-empty exactly when it has a vertex
Satisfacible(tb, rq, a, cult) == Vertices(tb, rq, a, cult) # {}

\* the precheck rejects the inputs although every field can be satisfied
FalsoPositivo(pots, tb, rq, a) ==
    /\ ~CultivoDesconocido(pots, rq)
    /\ precheck_factibilidad(pots, tb, rq, a) # <<>>
    /\ \A k \in 1..Len(pots) : Satisfacible(tb, rq, a, pots[k].cultivo)

\* on product tables without a repeated name the precheck has no false
\* positive: a field it names in a diagnostic has constraints that cannot
\* be satisfied
SinFalsoPositivo ==
    (TrasPrecheck /\ ~CultivoDesconocido(potreros, reqs)) =>
        \A k \in 1..Len(potreros) :
            Diagnosticado(k) => ~Satisfacible(tabla, reqs, args, potreros[k].cultivo)

\* the rows of tb after which no row carries the same name, and the sum of
\* the minimum doses when every row takes the minimum of such a row of its
\* name
SinPosterior(tb, j) == \A m \in (j + 1)..Len(tb) : tb[m].producto # tb[j].producto
MinimoVigente(tb, j) ==
    tb[CHOOSE k \in j..Len(tb) : tb[k].producto = tb[j].producto /\ SinPosterior(tb, k)]
        .dosis_min_kg_ha
SumaVigente(tb) == QSum([j \in 1..Len(tb) |-> MinimoVigente(tb, j)])

\* a valid configuration: percentages in [0, 100], 0 <= dmin <= dmax,
\* positive areas, every crop in the requirement table
Valida(pots, tb, rq) ==
    /\ ~CultivoDesconocido(pots, rq)
    /\ \A k \in 1..Len(pots) : QSign(pots[k].superficie_ha) > 0
    /\ \A j \in 1..Len(tb) :
          /\ \A t \in 1..3 : EnCotas(QZero, Pct(tb, j, Nutrientes[t]), QInt(100))
          /\ EnCotas(QZero, tb[j].dosis_min_kg_ha, tb[j].dosis_max_kg_ha)

\* fields that require nothing, under a mix ceiling that the minimum doses
\* of the rows exceed by 1 kg/ha or more and the minimum doses in force for
\* the rows do not exceed, without a nitrogen ceiling
MinimosRepetidos(pots, tb, rq, a) ==
    /\ Valida(pots, tb, rq)
    /\ MixActivo(a) /\ ~NmaxActivo(a)
    /\ \A k \in 1..Len(pots) :
          \A t \in 1..3 : QSign(ReqEfectivo(rq, a, pots[k].cultivo, Nutrientes[t])) = 0
    /\ QLe(QAdd(a.mixmax, QInt(1)), QSum([j \in 1..Len(tb) |-> tb[j].dosis_min_kg_ha]))
    /\ QLe(SumaVigente(tb), a.mixmax)

\* C10: the precheck can produce a false positive.  On every valid
\* configuration of MinimosRepetidos the precheck emits a diagnostic and the
\* run ends there, although the constraints of every field can be
\* satisfied: the precheck adds up the minimum doses of the rows, the
\* linear program has one variable per product name, bounded by the minimum
\* of the last row of that name.
C10_FalsoPositivoPorNombreRepetido ==
    (TrasPrecheck /\ MinimosRepetidos(potreros, tabla, reqs, args)) =>
        /\ msgs # <<>>
        /\ pc = "fin" /\ exit_code = 2 /\ status = "Not Solved"
        /\ \A k \in 1..Len(potreros) :
              Satisfacible(tabla, reqs, args, potreros[k].cultivo)

\* a run on a valid configuration, two rows of urea with minimum doses 190
\* and 20 under a mix ceiling of 200 on a fallow field, that the precheck
\* has ended with the diagnostic of the minimum doses as its only message,
\* and whose constraints can be satisfied
C10_Witness ==
    /\ pc = "fin" /\ exit_code = 2
    /\ Len(potreros) = 1
    /\ Valida(potreros, tabla, reqs)
    /\ Len(tabla) = 2
    /\ msgs = <<Diag(potreros[1].potrero, "dmin")>>
    /\ Satisfacible(tabla, reqs, args, potreros[1].cultivo)

\* the most of nutrient nut that doses between 0 and dmax of the products
\* of S can deliver within a mix of cap kg/ha: the products are taken by
\* decreasing fraction, each up to its dmax, until the mix is full
RECURSIVE Llenar(_, _, _, _)
Llenar(tb, S, cap, nut) ==
    IF S = {} \/ QSign(cap) <= 0 THEN QZero
    ELSE LET j == CHOOSE j \in S : \A i \in S : QLe(Frac(tb, i, nut), Frac(tb, j, nut))
             d == QMin(cap, tb[j].dosis_max_kg_ha)
         IN  QAdd(QMul(d, Frac(tb, j, nut)), Llenar(tb, S \ {j}, QSub(cap, d), nut))

\* the most of nut that any dose vector within the maxima, the mix ceiling
\* and, for nitrogen, the nitrogen ceiling delivers
MaxEntregable(tb, a, nut) ==
    LET m == IF QSign(a.mixmax) > 0 THEN Llenar(tb, 1..Len(tb), a.mixmax, nut)
             ELSE MaxPorDmax(tb, nut)
    IN  IF nut = "N" /\ QSign(a.nmax) > 0 THEN QMin(m, a.nmax) ELSE m

\* the effective requirement of field k for nut exceeds by more than 1e-6
\* what can be delivered
NoEntregable(k, nut) ==
    ExcedePor(Exigido(k, nut), MaxEntregable(tabla, args, nut), 1000000)
HayNoEntregable ==
    /\ TrasPrecheck
    /\ ~CultivoDesconocido(potreros, reqs)
    /\ \E k \in 1..Len(potreros) : \E t \in 1..3 : NoEntregable(k, Nutrientes[t])

\* C11 as stated: whenever the effective requirement of some field for a
\* single nutrient cannot be delivered within the per-product maxima, the
\* mix ceiling and (for nitrogen) the nitrogen ceiling, the precheck emits a
\* diagnostic and the run is rejected before solving.
C11_SinFalsoNegativo ==
    HayNoEntregable => (msgs # <<>> /\ pc = "fin" /\ status = "Not Solved")

\* C11 amended: such a requirement is always rejected with exit status 2 and
\* without output, but not always by the precheck: its bound (mixmax x the
\* largest fraction) can lie above what the mix delivers, and then the solve
\* ends Infeasible.
C11_NoEntregableRechazado ==
    HayNoEntregable =>
        /\ pc # "exportar" /\ status # "Optimal"
        /\ ~csv_out.existe /\ ~txt_out.existe
        /\ pc = "fin" => (exit_code = 2 /\ (msgs # <<>> \/ status = "Infeasible"))

\* a field whose nitrogen cannot be delivered passes the precheck and is
\* rejected by the solve
C11_Witness ==
    /\ pc = "fin" /\ exit_code = 2
    /\ msgs = <<>> /\ status = "Infeasible"
    /\ Len(potreros) = 1
    /\ ~CultivoDesconocido(potreros, reqs)
    /\ NoEntregable(1, "N")

\* the stages in their order, and the end of the run
Etapas ==
    <<"cargar", "precheck", "modelo", "resolver", "exportar", "resumen", "fin">>
Sigue(p, q) ==
    \E i \in 1..Len(Etapas) - 1 : p = Etapas[i] /\ q \in {Etapas[i + 1], "fin"}

\* C12: the stages of a run occur in the order load/validate, precheck,
\* solve, extract, each one followed by the next or by the end of the run;
\* the solve is never reached when the precheck produced a diagnostic, and
\* nothing is extracted or written unless the solver status is Optimal.
C12_OrdenDeEtapas ==
    /\ [][pc' # pc => Sigue(pc, pc')]_vars
    /\ [](msgs # <<>> => (pc = "fin" /\ status = "Not Solved"))
    /\ [](pc \in {"exportar", "resumen"} => status = "Optimal")
    /\ []((csv_out.existe \/ txt_out.existe) => status = "Optimal")

\* a run whose solve ended with a status other than Optimal and that wrote
\* nothing
C12_Witness ==
    /\ pc = "fin" /\ status = "Infeasible" /\ msgs = <<>>
    /\ ~csv_out.existe /\ ~txt_out.existe

\* the run was given a command line the script knows, is over and has failed
RunFallida == pc = "fin" /\ exit_code # 0 /\ reqpath = SinReqpath

\* C13: after any failed run (missing column, unknown crop, precheck
\* infeasibility, non-optimal solve) the exit status is non-zero and neither
\* the dose table nor the cost summary of the run's tag exists, files left
\* by an earlier successful run with the same tag included.
C13_SinArchivosTrasFallo ==
    RunFallida => (~csv_out.existe /\ ~txt_out.existe)

\* C14: whenever a run ends with exit status 0, the dose table and the cost
\* summary of its tag both exist, the dose table has at least one row and
\* the summary its cost, and both hold what this run solved and not what an
\* earlier run left.
C14_ArchivosDeEstaCorrida ==
    RunOk =>
        /\ csv_out.existe /\ txt_out.existe
        /\ csv_out.filas # <<>>
        /\ csv_out.filas = SortValues(FilasDesde(potreros, tabla, x, 1, 1))
        /\ txt_out.costo = CostoResumen(potreros, tabla, args, x)

\* a successful run with tag A in a data directory that held the outputs of
\* earlier runs: those of tag B are still there, those of tag A are replaced
C14_Witness ==
    /\ RunOk
    /\ args.tag = "A"
    /\ archivos[CSV_OUT("B")] = Viejos[CSV_OUT("B")]
    /\ archivos[CSV_OUT("A")] # Viejos[CSV_OUT("A")]
    /\ archivos[TXT_OUT("A")] # Viejos[TXT_OUT("A")]

\* the file names the error messages use for the three tables
NombreDeTabla ==
    [potreros |-> "potreros.csv", reqs |-> "requerimientos.csv",
     prods |-> "productos.csv"]

\* the table tb, as the tolerant reader hands it over, lacks column c
Ausente(tb, c) == c \notin DOMAIN read_csv_flexible(columnas[tb])

\* C15: for each of the three tables and each of its required columns, if
\* the column is absent the run fails with a missing-column error that names
\* the column and the table, and neither precheck nor solve is attempted.
C15_ErrorDeColumna ==
    \A tb \in DOMAIN Requeridas : \A c \in Requeridas[tb] :
        (Ausente(tb, c) /\ reqpath = SinReqpath /\ pc \notin {"lanzar", "cargar"}) =>
            /\ pc = "fin"
            /\ error = <<"faltan columnas", NombreDeTabla[tb], c>>
            /\ msgs = <<>> /\ status = "Not Solved"

\* C16: if a field references a crop without a row in the requirement
\* table, the run fails with exit status 2 and the unknown-crop error that
\* names the crop and the field, and produces no output.
C16_ErrorDeCultivo ==
    (pc = "fin" /\ CultivoDesconocido(potreros, reqs)) =>
        /\ exit_code = 2
        /\ error = <<"cultivo no esta en requerimientos.csv",
                     PrimerDesconocido(potreros, reqs).cultivo,
                     PrimerDesconocido(potreros, reqs).potrero>>
        /\ ~csv_out.existe /\ ~txt_out.existe

\* C17: the script accepts an override path for the requirement table: a
\* run invoked with --reqpath, as run_solver invokes it, is not turned down
\* over that option and goes through the pipeline.
C17_ReqpathAceptado ==
    (pc = "fin" /\ reqpath # SinReqpath) =>
        error # <<"unrecognized arguments", "--reqpath">>

\* the run that is on the processor, and the run with tag t
EnCurso == Corrida(args, reqpath, pc, tabla, msgs, status, x, error, exit_code)
CorridaDe(t) == IF args.tag = t THEN EnCurso ELSE otra

\* what a run with command line a does on its own: its exit status
CodigoSolo(a) ==
    IF CultivoDesconocido(potreros, reqs) THEN 1
    ELSE IF precheck_factibilidad(potreros, Sanitizar(prods), reqs, a) # <<>> THEN 2
    ELSE IF \E k \in 1..Len(potreros) :
               Optimos(Sanitizar(prods), reqs, a, potreros[k].cultivo,
                       potreros[k].superficie_ha) = {}
    THEN 2
    ELSE 0

\* the doses sol are among those a run with command line a may solve
DosisSolas(a, sol) ==
    \A k \in 1..Len(potreros) :
        sol[k] \in Optimos(Sanitizar(prods), reqs, a, potreros[k].cultivo,
                           potreros[k].superficie_ha)

\* the files of tag t are those of run r alone: none until it has exported,
\* then its own dose table, and its own cost once it has ended
ArchivosPropios(t, r) ==
    /\ IF r.pc = "resumen" \/ (r.pc = "fin" /\ r.exit_code = 0)
       THEN archivos[<<"resultados_dosis", t>>] =
                 [existe |-> TRUE, costo |-> 0,
                  filas |-> SortValues(FilasDesde(potreros, r.tabla, r.x, 1, 1))]
       ELSE ~archivos[<<"resultados_dosis", t>>].existe
    /\ IF r.pc = "fin" /\ r.exit_code = 0
       THEN archivos[<<"_resumen", t>>] =
                 [existe |-> TRUE, filas |-> <<>>,
                  costo |-> CostoResumen(potreros, r.tabla, r.args, r.x)]
       ELSE ~archivos[<<"_resumen", t>>].existe

DistintosTags == otra # SinOtra /\ otra.args.tag # args.tag

\* C18: two runs with tags A and B on the same tables share no state: under
\* every interleaving the dose table and the cost summary of a tag are those
\* its own run writes, and each run ends as it ends alone, with doses that
\* depend on its own parameters only.
C18_CorridasIndependientes ==
    DistintosTags =>
        \A t \in {"A", "B"} :
            /\ ArchivosPropios(t, CorridaDe(t))
            /\ CorridaDe(t).pc = "fin" =>
                  IF CorridaDe(t).exit_code = 0
                  THEN DosisSolas(CorridaDe(t).args, CorridaDe(t).x)
                  ELSE CodigoSolo(CorridaDe(t).args) = CorridaDe(t).exit_code

\* run B is between its solve and its export, and run A, started before B
\* finished, has already written files with another cost than B will write
C18_Witness ==
    /\ DistintosTags
    /\ args.tag = "B" /\ pc = "exportar"
    /\ otra.pc = "fin" /\ otra.exit_code = 0
    /\ otra.args # [args EXCEPT !.tag = "A"]
    /\ archivos[TXT_OUT("A")].existe
    /\ archivos[TXT_OUT("A")].costo # CostoResumen(potreros, tabla, args, x)

\* the second run has the command line of the first
MismosParametros == otra # SinOtra /\ otra.args = args /\ otra.reqpath = reqpath

\* C19: two runs of the pipeline on identical tables with identical
\* parameters end the same way (both succeed, or both fail with the same
\* exit status, error and diagnostics) and, on success, compute the same
\* total cost, which is the one in the cost summary.
C19_Idempotente ==
    (MismosParametros /\ pc = "fin" /\ otra.pc = "fin") =>
        /\ exit_code = otra.exit_code
        /\ error = otra.error
        /\ msgs = otra.msgs
        /\ exit_code = 0 =>
              /\ CostoResumen(potreros, tabla, args, x) =
                    CostoResumen(potreros, otra.tabla, otra.args, otra.x)
              /\ txt_out.costo = CostoResumen(potreros, tabla, args, x)

\* two successful runs with the same parameters that solved different doses
C19_Witness ==
    /\ MismosParametros
    /\ pc = "fin" /\ otra.pc = "fin"
    /\ exit_code = 0 /\ otra.exit_code = 0
    /\ x # otra.x

\* both runs succeeded, with the same application cost
AmbasExitosas ==
    /\ otra # SinOtra
    /\ pc = "fin" /\ otra.pc = "fin"
    /\ exit_code = 0 /\ otra.exit_code = 0
    /\ args.costoap = otra.args.costoap

\* the cost the other run computed is not greater than this run's
OtraNoCuestaMas ==
    CostoResumen(potreros, otra.tabla, otra.args, otra.x)
        <= CostoResumen(potreros, tabla, args, x)

\* ceiling b is at least as loose as ceiling a, 0 being no ceiling
TopeMasFlojo(a, b) == QSign(b) <= 0 \/ (QSign(a) > 0 /\ QLe(a, b))

\* C20 as stated: of two successful runs on the same tables, the one whose
\* tolerance, mixmax and nmax values are all greater or equal has an optimal
\* total cost that is not greater.
C20_Monotono ==
    (/\ AmbasExitosas
     /\ QLe(args.tol, otra.args.tol)
     /\ QLe(args.mixmax, otra.args.mixmax)
     /\ QLe(args.nmax, otra.args.nmax)) => OtraNoCuestaMas

\* C20 amended: the same with the ceilings compared as ceilings: a mixmax or
\* nmax of 0 is no ceiling and so the loosest value, not the smallest.
C20_MonotonoConTopes ==
    (/\ AmbasExitosas
     /\ QLe(args.tol, otra.args.tol)
     /\ TopeMasFlojo(args.mixmax, otra.args.mixmax)
     /\ TopeMasFlojo(args.nmax, otra.args.nmax)) => OtraNoCuestaMas

\* two successful runs, the other with a larger tolerance and without the
\* nitrogen ceiling this run has, at a strictly lower cost
C20_Witness ==
    /\ AmbasExitosas
    /\ QLt(args.tol, otra.args.tol)
    /\ TopeMasFlojo(args.mixmax, otra.args.mixmax)
    /\ QSign(args.nmax) > 0 /\ QSign(otra.args.nmax) = 0
    /\ CostoResumen(potreros, otra.tabla, otra.args, otra.x)
          < CostoResumen(potreros, tabla, args, x)

\* the problem of field k without mix and nitrogen ceilings: the three
\* nutrient constraints and the dose intervals, and its optimal doses
SinTopes(k) ==
    [t \in 1..3 |->
        Restr([j \in 1..Len(tabla) |-> Frac(tabla, j, Nutrientes[t])], "ge",
              Exigido(k, Nutrientes[t]))]
OptimosSinTopes(k) ==
    OptimosDe(VerticesCon(SinTopes(k), tabla), tabla, args, potreros[k].superficie_ha)

\* the precheck reports nutrient nut of field k exactly when the requirement
\* exceeds the bound cota by more than 1e-6
DiagSegun(k, nut, cota) ==
    (Diag(potreros[k].potrero, nut) \in Emitidos) <=> FGtEps(ExigidoF(k, nut), cota, FOfQ(<<1, 1000000>>))

\* C21: a ceiling of 0 is a ceiling switched off.  With mixmax = 0 the
\* precheck makes no minimum-dose-sum check and bounds P2O5 and K2O (and N
\* when nmax = 0 too) by the sum of dmax x fraction alone; with nmax = 0 the
\* nitrogen bound of the precheck is the mix bound, without a cap; and with
\* both at 0 the solved doses are optimal doses of the problem that has the
\* nutrient constraints and the dose intervals only.
C21_CeroDeshabilita ==
    /\ (SalidaDelPrecheck /\ ~CultivoDesconocido(potreros, reqs)) =>
          LET sumaN == MaxPorDmaxF(tabla, "N")
              sumaP == MaxPorDmaxF(tabla, "P2O5")
              sumaK == MaxPorDmaxF(tabla, "K2O")
          IN
          \A k \in 1..Len(potreros) :
              /\ QSign(args.mixmax) = 0 =>
                    /\ Diag(potreros[k].potrero, "dmin") \notin Emitidos
                    /\ DiagSegun(k, "P2O5", sumaP)
                    /\ DiagSegun(k, "K2O", sumaK)
              /\ QSign(args.nmax) = 0 => DiagSegun(k, "N", CotaMezcla(sumaN, "N"))
              /\ (QSign(args.mixmax) = 0 /\ QSign(args.nmax) = 0) =>
                    DiagSegun(k, "N", sumaN)
    /\ (TrasPrecheck /\ ~CultivoDesconocido(potreros, reqs)
          /\ QSign(args.mixmax) = 0 /\ QSign(args.nmax) = 0) =>
          \A k \in 1..Len(potreros) :
              /\ status = "Optimal" => x[k] \in OptimosSinTopes(k)
              /\ status = "Infeasible" => \E i \in 1..Len(potreros) : OptimosSinTopes(i) = {}

\* a successful run with both ceilings at 0 in which a field receives more
\* mix and more nitrogen than the largest ceilings of the other runs allow
C21_Witness ==
    /\ RunOk
    /\ QSign(args.mixmax) = 0 /\ QSign(args.nmax) = 0
    /\ \E k \in 1..Len(potreros) :
          /\ QLt(QInt(600), QSum(x[k]))
          /\ QLt(QInt(30), Aporte(tabla, x[k], "N"))

\* the rows of the dose table for field k and product j
FilasDe(k, j) ==
    {i \in 1..Len(csv_out.filas) :
        /\ csv_out.filas[i].potrero = potreros[k].potrero
        /\ csv_out.filas[i].producto = tabla[j].producto}

\* C22: the dose table of a successful run has one row for each (field,
\* product) pair whose solved dose is greater than 1e-6, with that dose
\* rounded to two decimal places, and no row for any other pair.
C22_FilasDeDosis ==
    RunOk =>
        /\ \A k \in 1..Len(potreros) : \A j \in 1..Len(tabla) :
              IF ExcedePor(x[k][j], QZero, 1000000)
              THEN /\ Cardinality(FilasDe(k, j)) = 1
                   /\ \A i \in FilasDe(k, j) : csv_out.filas[i].kg_ha = Round2(x[k][j])
              ELSE FilasDe(k, j) = {}
        /\ \A i \in 1..Len(csv_out.filas) :
              \E k \in 1..Len(potreros) : \E j \in 1..Len(tabla) : i \in FilasDe(k, j)

\* a successful run that solved a dose of 1e-6 exactly, left out of the
\* table, next to doses that are written
C22_Witness ==
    /\ RunOk
    /\ \E k \in 1..Len(potreros) : \E j \in 1..Len(tabla) :
          /\ x[k][j] = Q(1, 1000000)
          /\ FilasDe(k, j) = {}
    /\ csv_out.filas # <<>>

\* the cell leida is the cell escrita of the file, or the default d where
\* that one cannot be parsed
CeldaSaneada(leida, escrita, d) ==
    IF escrita[2] = 0 THEN leida = <<d, 1>> ELSE leida = escrita

\* C23: the run goes on past the load whatever cells of the product table
\* cannot be parsed, with the same rows; an unparseable price or minimum
\* dose is 0, an unparseable maximum dose 1e6, an unparseable nutrient
\* percentage 0, and every parseable value is the one of the file.
C23_CeldasPorDefecto ==
    pc # "cargar" =>
        /\ error \notin {<<"KeyError", "cultivo">>, <<"KeyError", "producto">>}
        /\ Len(tabla) = Len(prods)
        /\ \A j \in 1..Len(prods) :
              /\ tabla[j].producto = prods[j].producto
              /\ CeldaSaneada(tabla[j].precio_CLP_ton, prods[j].precio_CLP_ton, 0)
              /\ CeldaSaneada(tabla[j].dosis_min_kg_ha, prods[j].dosis_min_kg_ha, 0)
              /\ CeldaSaneada(tabla[j].dosis_max_kg_ha, prods[j].dosis_max_kg_ha, 1000000)
              /\ CeldaSaneada(tabla[j].N_pct, prods[j].N_pct, 0)
              /\ CeldaSaneada(tabla[j].P2O5_pct, prods[j].P2O5_pct, 0)
              /\ CeldaSaneada(tabla[j].K2O_pct, prods[j].K2O_pct, 0)

\* a successful run on a product table with an unparseable maximum dose
\* that applies more of that product than any maximum of the other tables
C23_Witness ==
    /\ RunOk
    /\ \E j \in 1..Len(prods) :
          /\ prods[j].dosis_max_kg_ha[2] = 0
          /\ \E k \in 1..Len(potreros) : QLt(QInt(400), x[k][j])

EnReposo == pagina.fase = "reposo"

\* C25: in a session where an execution succeeded for at least one scenario,
\* a later rerun of the script with the button not pressed shows the stored
\* results through the persistent render, while the run that has just shown
\* the results of an execution does not show them a second time.
C25_RenderPersistente ==
    /\ (EnReposo /\ pagina.ultimo = "recarga"
            /\ (session_state.last_run.okA \/ session_state.last_run.okB))
        => pagina.render.persistente
    /\ (EnReposo /\ pagina.ultimo = "ejecucion" /\ pagina.render.inmediato)
        => ~pagina.render.persistente

\* the part of C25 the page does keep: results are never shown twice in one
\* run of the script
C25_NuncaDosVeces == EnReposo => ~(pagina.render.inmediato /\ pagina.render.persistente)

\* the persistent render is never shown at all
C25_PersistenteNunca == EnReposo => ~pagina.render.persistente

\* run_solver has just returned to the handler
Retornado == pc = "retorno"

\* the ok it returned
OkDevuelto == IF pagina.fase = "A" THEN pagina.okA ELSE pagina.okB

\* the output files of the tag are those the solver of this call wrote
SalidasDeEstaLlamada ==
    /\ csv_out = ArchivoCSV(SortValues(FilasDesde(potreros, tabla, x, 1, 1)))
    /\ txt_out = ArchivoTXT(CostoResumen(potreros, tabla, args, x))

TrasEjecucion == EnReposo /\ pagina.ultimo = "ejecucion"

\* csv, txt and costo of a scenario are stored exactly when its ok is true
CamposSegunOk(ctx) ==
    /\ (ctx.csvA # None) = ctx.okA /\ (ctx.txtA # None) = ctx.okA
    /\ (ctx.costoA # None) = ctx.okA
    /\ (ctx.csvB # None) = ctx.okB /\ (ctx.txtB # None) = ctx.okB
    /\ (ctx.costoB # None) = ctx.okB

\* C27: after every execution of scenarios A and B from the page, last_run
\* reflects that execution: okA and okB are the outcomes of the two solver
\* calls just made, and csvX, txtX and costoX are non-None exactly when okX
\* is true.
C27_LastRunReflejaEjecucion ==
    TrasEjecucion =>
        /\ session_state.last_run.okA = pagina.okA
        /\ session_state.last_run.okB = pagina.okB
        /\ CamposSegunOk(session_state.last_run)

\* what the page does keep: the fields agree with the stored okA and okB in
\* every state, and last_run is that of the execution just made unless both
\* of its calls failed
C27_SalvoDobleFallo ==
    /\ CamposSegunOk(session_state.last_run)
    /\ (TrasEjecucion /\ (pagina.okA \/ pagina.okB)) =>
          session_state.last_run = LastRunDe(pagina.okA, pagina.okB, archivos)

\* last_run records both scenarios as successful and both dose tables exist
AmbosEnDisco ==
    /\ session_state.last_run.okA /\ session_state.last_run.okB
    /\ archivos[CSV_OUT("A")].existe /\ archivos[CSV_OUT("B")].existe

\* C28: whenever the export section is shown, it offers the A/B downloads,
\* reading the two dose tables, only when last_run records both scenarios
\* as successful and both dose tables exist on disk; otherwise it shows
\* only the hint to run both scenarios.
C28_ExportarSoloConAmbos ==
    EnReposo =>
        /\ pagina.render.exportar = "descargas" => AmbosEnDisco
        /\ (pagina.render.exportar # "nada" /\ ~AmbosEnDisco) =>
              pagina.render.exportar = "aviso"

\* a session of optimizador.py in a data directory that holds the dose
\* tables of earlier runs for both scenarios: no execution of the session
\* succeeded, and the export section shows the hint
C28_Witness ==
    /\ EnReposo
    /\ reqpath # SinReqpath
    /\ archivos[CSV_OUT("A")].existe /\ archivos[CSV_OUT("B")].existe
    /\ ~session_state.last_run.okA /\ ~session_state.last_run.okB
    /\ pagina.render.exportar = "aviso"

\* C29: every run whose linear program is solved with status Optimal ends
\* successfully: exit status 0 with the dose table and the cost summary
\* written, also when every solved dose is at or below 1e-6.
C29_OptimalTermina ==
    (pc = "fin" /\ status = "Optimal") =>
        (exit_code = 0 /\ csv_out.existe /\ txt_out.existe)

\* what the script does instead: an Optimal solve ends with status 0 and
\* both files exactly when some solved dose exceeds 1e-6, and with the
\* uncaught KeyError, status 1 and no file when none does
C29_SalvoTablaVacia ==
    (pc = "fin" /\ status = "Optimal") =>
        IF FilasDesde(potreros, tabla, x, 1, 1) # <<>>
        THEN exit_code = 0 /\ csv_out.existe /\ txt_out.existe
        ELSE exit_code = 1 /\ error = <<"KeyError", "potrero">>
                /\ ~csv_out.existe /\ ~txt_out.existe

\* product j has a minimum dose greater than 1e-6
MinimoPositivo(j) == ExcedePor(tabla[j].dosis_min_kg_ha, QZero, 1000000)

\* C30 as stated: in every successful result each product with a minimum
\* dose greater than 1e-6 appears in the dose table for every field, with a
\* dose of at least its minimum.
C30_MinimoEscrito ==
    RunOk => \A k \in 1..Len(potreros) : \A j \in 1..Len(tabla) :
                MinimoPositivo(j) =>
                    \E i \in FilasDe(k, j) :
                        QLe(tabla[j].dosis_min_kg_ha, csv_out.filas[i].kg_ha)

\* C30 amended: each such product is given to every field in a solved dose
\* of at least its minimum and appears in the dose table for every field
\* with that dose rounded to two decimal places, which is at least the
\* minimum when the minimum is a multiple of 0.01.
C30_MinimoObligatorio ==
    RunOk => \A k \in 1..Len(potreros) : \A j \in 1..Len(tabla) :
                MinimoPositivo(j) =>
                    /\ QLe(tabla[j].dosis_min_kg_ha, x[k][j])
                    /\ \E i \in FilasDe(k, j) :
                          /\ csv_out.filas[i].kg_ha = Round2(x[k][j])
                          /\ Round2(tabla[j].dosis_min_kg_ha) = tabla[j].dosis_min_kg_ha
                                => QLe(tabla[j].dosis_min_kg_ha, csv_out.filas[i].kg_ha)

\* a successful run on a field that needs no potassium, with a potassium
\* product of minimum dose 2e-6: it is in the table, written as 0.0
C30_Witness ==
    /\ RunOk
    /\ \E k \in 1..Len(potreros) : \E j \in 1..Len(tabla) :
          /\ tabla[j].dosis_min_kg_ha = Q(1, 500000)
          /\ Req(reqs, potreros[k].cultivo, "K2O") = QZero
          /\ \E i \in FilasDe(k, j) : csv_out.filas[i].kg_ha = QZero

====
